---- MODULE Spec2Model ----
(***************************************************************************)
(* Stepper: the step-execution state machine (StepRunner), its fallback    *)
(* selection and the text-similarity step deduplication, together with the *)
(* side panel variable (currentArticle) that is handed to every call; the  *)
(* article retrieval, the side panel handlers and the KB loader.           *)
(***************************************************************************)
EXTENDS Integers, Sequences, FiniteSets, TLC

(***************************************************************************)
(* Bounds of the model.                                                    *)
(*   MaxClock    : the last instant new Date() can read (the first is 0)    *)
(*   MaxAttempts : attempted paths of one session                           *)
(*   MaxFailures : failures recorded in one session                         *)
(*   MaxRecords  : failures recorded in one session without fallback        *)
(*   MaxWords    : words of the vocabulary the compared texts are made of   *)
(*   MaxSteps    : candidate steps in one call of findStepsToSkip           *)
(*   MaxCompleted: completed texts in one call of findStepsToSkip           *)
(*   MaxTokens   : tokens of one argument of calculateJaccardSimilarity     *)
(*   MaxQueryWords: words the search queries are made of                    *)
(*   MaxLimit    : the largest limit search is called with                  *)
(*   MaxScore    : the largest score of a result given to isLowConfidence   *)
(*   MaxResults  : results in a list given to isLowConfidence               *)
(*   MaxSubmits  : calls of handleUserInput that wait for their timer       *)
(*   MaxMessages : messages in the chat of the side panel                   *)
(*   MaxCalls    : calls of the KB loader in flight, the one of the module  *)
(*                 load apart                                               *)
(*   MaxRemoteArticles: articles of a KB fetched from the remote source     *)
(***************************************************************************)
MaxClock == 0
MaxAttempts == 2
MaxFailures == 1
MaxRecords == 3
MaxWords == 5
MaxSteps == 2
MaxCompleted == 2
MaxTokens == 3
MaxQueryWords == 6
MaxLimit == 3
MaxScore == 10
MaxResults == 2
MaxSubmits == 2
MaxRemoteArticles == 2
MaxKeywords == 2
MaxMessages == 5
MaxCalls == 2

(***************************************************************************)
(* Characters.  A string is modelled as the sequence of its UTF-16 code    *)
(* units, each a string: a printable ASCII character other than the grave  *)
(* accent stands for itself, tab, line feed, form feed and carriage return *)
(* are written with their escapes, and every other code unit is written by *)
(* its name, as in "U+0060", "U+00E9" or "U+2028".                         *)
(***************************************************************************)
UpperCase == <<"A", "B", "C", "D", "E", "F", "G", "H", "I", "J", "K", "L", "M",
               "N", "O", "P", "Q", "R", "S", "T", "U", "V", "W", "X", "Y", "Z">>
LowerCase == <<"a", "b", "c", "d", "e", "f", "g", "h", "i", "j", "k", "l", "m",
               "n", "o", "p", "q", "r", "s", "t", "u", "v", "w", "x", "y", "z">>
Digits == {"0", "1", "2", "3", "4", "5", "6", "7", "8", "9"}

(* the upper-case letters of Latin-1, U+00C0 to U+00DE without U+00D7, and *)
(* their lower-case letters, U+00E0 to U+00FE without U+00F7               *)
UpperLatin1 ==
    <<"U+00C0", "U+00C1", "U+00C2", "U+00C3", "U+00C4", "U+00C5", "U+00C6",
      "U+00C7", "U+00C8", "U+00C9", "U+00CA", "U+00CB", "U+00CC", "U+00CD",
      "U+00CE", "U+00CF", "U+00D0", "U+00D1", "U+00D2", "U+00D3", "U+00D4",
      "U+00D5", "U+00D6", "U+00D8", "U+00D9", "U+00DA", "U+00DB", "U+00DC",
      "U+00DD", "U+00DE">>
LowerLatin1 ==
    <<"U+00E0", "U+00E1", "U+00E2", "U+00E3", "U+00E4", "U+00E5", "U+00E6",
      "U+00E7", "U+00E8", "U+00E9", "U+00EA", "U+00EB", "U+00EC", "U+00ED",
      "U+00EE", "U+00EF", "U+00F0", "U+00F1", "U+00F2", "U+00F3", "U+00F4",
      "U+00F5", "U+00F6", "U+00F8", "U+00F9", "U+00FA", "U+00FB", "U+00FC",
      "U+00FD", "U+00FE">>

(* WhiteSpace and LineTerminator of ECMAScript, the class \s and what trim *)
(* removes: space, tab, line feed, carriage return, form feed, vertical    *)
(* tab (U+000B), no-break space (U+00A0), the space separators of Unicode, *)
(* the line and paragraph separators and the byte order mark (U+FEFF)      *)
Whitespace ==
    {" ", "\t", "\n", "\r", "\f", "U+000B", "U+00A0", "U+1680", "U+2000",
     "U+2001", "U+2002", "U+2003", "U+2004", "U+2005", "U+2006", "U+2007",
     "U+2008", "U+2009", "U+200A", "U+2028", "U+2029", "U+202F", "U+205F",
     "U+3000", "U+FEFF"}

Range(s) == {s[i] : i \in DOMAIN s}

(* The code units on which toLowerCase is modelled: U+0000 to U+00FF, the  *)
(* white space above, and U+0130, U+0178, U+0307, U+212A and U+212B.  The  *)
(* other code units are left out: among them are the Greek capital sigma,  *)
(* whose lower case depends on its place in the word, and the surrogates,  *)
(* which are converted in pairs.                                           *)
CodeUnits ==
    Range(UpperCase) \cup Range(LowerCase) \cup Digits \cup Whitespace \cup
    Range(UpperLatin1) \cup Range(LowerLatin1) \cup
    {"!", "\"", "#", "$", "%", "&", "'", "(", ")", "*", "+", ",", "-", ".",
     "/", ":", ";", "<", "=", ">", "?", "@", "[", "\\", "]", "^", "_", "U+0060",
     "{", "|", "}", "~"} \cup
    {"U+0000", "U+0001", "U+0002", "U+0003", "U+0004", "U+0005", "U+0006",
     "U+0007", "U+0008", "U+000E", "U+000F", "U+0010", "U+0011", "U+0012",
     "U+0013", "U+0014", "U+0015", "U+0016", "U+0017", "U+0018", "U+0019",
     "U+001A", "U+001B", "U+001C", "U+001D", "U+001E", "U+001F", "U+007F"} \cup
    {"U+0080", "U+0081", "U+0082", "U+0083", "U+0084", "U+0085", "U+0086",
     "U+0087", "U+0088", "U+0089", "U+008A", "U+008B", "U+008C", "U+008D",
     "U+008E", "U+008F", "U+0090", "U+0091", "U+0092", "U+0093", "U+0094",
     "U+0095", "U+0096", "U+0097", "U+0098", "U+0099", "U+009A", "U+009B",
     "U+009C", "U+009D", "U+009E", "U+009F", "U+00A1", "U+00A2", "U+00A3",
     "U+00A4", "U+00A5", "U+00A6", "U+00A7", "U+00A8", "U+00A9", "U+00AA",
     "U+00AB", "U+00AC", "U+00AD", "U+00AE", "U+00AF", "U+00B0", "U+00B1",
     "U+00B2", "U+00B3", "U+00B4", "U+00B5", "U+00B6", "U+00B7", "U+00B8",
     "U+00B9", "U+00BA", "U+00BB", "U+00BC", "U+00BD", "U+00BE", "U+00BF",
     "U+00D7", "U+00DF", "U+00F7", "U+00FF"} \cup
    {"U+0130", "U+0178", "U+0307", "U+212A", "U+212B"}

(* String.prototype.toLowerCase on one code unit, as pairs of a code unit  *)
(* that changes and the code units it gives: the ASCII and the Latin-1     *)
(* capitals, the capital Y with diaeresis (U+0178, which gives U+00FF),    *)
(* the Kelvin sign (U+212A) and the Angstrom sign (U+212B), which give     *)
(* ASCII k and U+00E5, and the capital I with dot above (U+0130), which    *)
(* gives i followed by the combining dot above (U+0307)                    *)
LowerOf ==
    {<<UpperCase[i], <<LowerCase[i]>>>> : i \in 1 .. 26} \cup
    {<<UpperLatin1[i], <<LowerLatin1[i]>>>> : i \in 1 .. 30} \cup
    {<<"U+0178", <<"U+00FF">>>>, <<"U+212A", <<"k">>>>,
     <<"U+212B", <<"U+00E5">>>>, <<"U+0130", <<"i", "U+0307">>>>}

(* String.prototype.toLowerCase, one code unit of CodeUnits: a code unit   *)
(* without a pair is kept                                                  *)
charToLowerCase(c) ==
    LET lowered == {p[2] : p \in {q \in LowerOf : q[1] = c}}
    IN  CASE c \in CodeUnits ->
             IF lowered = {} THEN <<c>> ELSE CHOOSE l \in lowered : TRUE

(* String.prototype.toLowerCase: the length changes where a code unit      *)
(* gives two                                                               *)
RECURSIVE toLowerCase(_)
toLowerCase(text) ==
    IF text = <<>> THEN <<>>
    ELSE charToLowerCase(Head(text)) \o toLowerCase(Tail(text))

(* the regular expression class \w : letters, digits and the underscore *)
WordChars == Range(UpperCase) \cup Range(LowerCase) \cup Digits \cup {"_"}

isWordChar(c) == c \in WordChars

(* the regular expression class \s *)
isSpaceChar(c) == c \in Whitespace

(* .replace(/[^\w\s]/g, ' ') *)
replacePunctuation(text) ==
    [i \in DOMAIN text |->
        IF isWordChar(text[i]) \/ isSpaceChar(text[i]) THEN text[i] ELSE " "]

(* .split(/\s+/): cut at every maximal run of whitespace; a leading or a    *)
(* trailing run leaves an empty piece, the empty string gives one piece.   *)
RECURSIVE splitFrom(_, _, _, _, _)
splitFrom(text, i, cur, acc, inRun) ==
    IF i > Len(text) THEN Append(acc, cur)
    ELSE IF isSpaceChar(text[i])
         THEN IF inRun THEN splitFrom(text, i + 1, cur, acc, TRUE)
              ELSE splitFrom(text, i + 1, <<>>, Append(acc, cur), TRUE)
         ELSE splitFrom(text, i + 1, Append(cur, text[i]), acc, FALSE)

splitWhitespace(text) == splitFrom(text, 1, <<>>, <<>>, FALSE)

(* Array.prototype.filter *)
RECURSIVE filterNonEmpty(_)
filterNonEmpty(pieces) ==
    IF pieces = <<>> THEN <<>>
    ELSE IF Len(Head(pieces)) > 0
         THEN <<Head(pieces)>> \o filterNonEmpty(Tail(pieces))
         ELSE filterNonEmpty(Tail(pieces))

normalizeToTokens(text) ==
    IF text = <<>> THEN <<>>
    ELSE filterNonEmpty(splitWhitespace(replacePunctuation(toLowerCase(text))))

(***************************************************************************)
(* Similarity.  STEP_SIMILARITY_THRESHOLD is 0.6, kept as the fraction     *)
(* ThresholdNum / ThresholdDen; the quotient intersection / union is       *)
(* compared with it by cross multiplication.                               *)
(***************************************************************************)
ThresholdNum == 6
ThresholdDen == 10

(* calculateJaccardSimilarity dividing by the first set instead of the union *)
calculateJaccardSimilarity_overFirst(tokens1, tokens2) ==
    LET set1 == Range(tokens1)
        set2 == Range(tokens2)
        intersection == {x \in set1 : x \in set2}
    IN  IF Cardinality(set1) = 0 THEN <<0, 1>>
        ELSE <<Cardinality(intersection), Cardinality(set1)>>

(* calculateJaccardSimilarity, as the pair <<|intersection|, |union|>>;    *)
(* the code returns 0 when the union is empty, here <<0, 1>>.              *)
calculateJaccardSimilarity(tokens1, tokens2) ==
    LET set1 == Range(tokens1)
        set2 == Range(tokens2)
        intersection == {x \in set1 : x \in set2}
        union == set1 \cup set2
    IN  IF Cardinality(union) = 0 THEN <<0, 1>>
        ELSE <<Cardinality(intersection), Cardinality(union)>>

(* areStepsSimilar with >= for > *)
areStepsSimilar_atLeast(text1, text2) ==
    IF text1 = text2 THEN TRUE
    ELSE LET tokens1 == normalizeToTokens(text1)
             tokens2 == normalizeToTokens(text2)
             similarity == calculateJaccardSimilarity(tokens1, tokens2)
         IN  similarity[1] * ThresholdDen >= similarity[2] * ThresholdNum

areStepsSimilar(text1, text2) ==
    IF text1 = text2 THEN TRUE
    ELSE LET tokens1 == normalizeToTokens(text1)
             tokens2 == normalizeToTokens(text2)
             similarity == calculateJaccardSimilarity(tokens1, tokens2)
         IN  similarity[1] * ThresholdDen > similarity[2] * ThresholdNum

(***************************************************************************)
(* The article corpus: the list of articles the retrieval provider is      *)
(* constructed with, and from which the articles passed to the Step Runner *)
(* are taken.  The provider and the Step Runner take any KB; the one used  *)
(* here is a small KB in the format of kb.mock.js, not the five articles   *)
(* of that file: it has an article with two fallbacks of one category,     *)
(* fallback steps similar to main steps, an article without steps and      *)
(* fallback ids shared between articles, which the bundled KB has not.     *)
(***************************************************************************)
TxtOpenApp     == <<"O", "p", "e", "n", " ", "t", "h", "e", " ", "a", "p", "p", ".">>
TxtCheckPort   == <<"C", "h", "e", "c", "k", " ", "S", "M", "T", "P", " ", "p", "o", "r", "t">>
TxtSendTest    == <<"S", "e", "n", "d", " ", "a", " ", "t", "e", "s", "t">>
TxtOpenAppLow  == <<"o", "p", "e", "n", " ", "t", "h", "e", " ", "a", "p", "p">>
TxtResetPwd    == <<"R", "e", "s", "e", "t", " ", "p", "a", "s", "s", "_", "w", "o", "r", "d">>
TxtSendTestNow == <<"s", "e", "n", "d", " ", "a", " ", "t", "e", "s", "t", " ", "n", "o", "w">>
TxtPortAndHost == <<"C", "h", "e", "c", "k", " ", "s", "m", "t", "p", " ", "p", "o", "r", "t", ",", " ", "a", "n", "d", " ", "h", "o", "s", "t">>

NoteSmtpPort   == <<"s", "m", "t", "p", " ", "p", "o", "r", "t", " ", "w", "r", "o", "n", "g">>
NoteQuota      == <<"Q", "u", "o", "t", "a", ":", " ", "n", "o", " ", "s", "p", "a", "c", "e">>
NoteSmtpQuota  == <<"S", "M", "T", "P", " ", "q", "u", "o", "t", "a">>

KwSmtp  == <<"s", "m", "t", "p">>
KwPort  == <<"p", "o", "r", "t">>
KwQuota == <<"q", "u", "o", "t", "a">>
KwSpace == <<"S", "p", "a", "c", "e">>
KwMode  == <<"m", "o", "d", "e">>

(* titles, tags, products and keywords the retrieval scores *)
TitleEmail     == <<"E", "m", "a", "i", "l", " ", "N", "o", "t", " ", "S", "e", "n", "d", "i", "n", "g">>
TitleOutlook   == <<"O", "u", "t", "l", "o", "o", "k", " ", "M", "a", "i", "l">>
TitlePrinter   == <<"P", "r", "i", "n", "t", "e", "r", " ", "J", "a", "m">>
TagEmail       == <<"e", "m", "a", "i", "l">>
TagGmail       == <<"g", "m", "a", "i", "l">>
TagDelivery    == <<"d", "e", "l", "i", "v", "e", "r", "y">>
TagOutlook     == <<"o", "u", "t", "l", "o", "o", "k">>
TagPrinter     == <<"p", "r", "i", "n", "t", "e", "r">>
ProductGmail   == <<"G", "m", "a", "i", "l">>
ProductOutlook == <<"O", "u", "t", "l", "o", "o", "k">>
ProductHP      == <<"H", "P">>
KeyEmail       == <<"e", "m", "a", "i", "l">>
KeyNotSending  == <<"n", "o", "t", " ", "s", "e", "n", "d", "i", "n", "g">>
KeyMail        == <<"m", "a", "i", "l">>
KeyPrinter     == <<"p", "r", "i", "n", "t", "e", "r">>

Step(id, text) == [id |-> id, text |-> text]

Fallback(id, category, keywords, steps) ==
    [id |-> id, reason_category |-> category,
     trigger_keywords |-> keywords, steps |-> steps]

ArticleEmail ==
    [id |-> 1,
     title |-> TitleEmail,
     tags |-> <<TagEmail, TagGmail, TagDelivery>>,
     product |-> ProductGmail,
     keywords |-> <<KeyEmail, KeyNotSending>>,
     steps |-> <<Step("step1", TxtOpenApp), Step("step2", TxtCheckPort),
                 Step("step3", TxtSendTest)>>,
     fallbacks |-> <<
        Fallback("fallback1", "system-error", <<KwSmtp, KwPort>>,
                 <<Step("fb1-step1", TxtOpenAppLow), Step("fb1-step2", TxtResetPwd),
                   Step("fb1-step3", TxtCheckPort)>>),
        Fallback("fallback2", "system-error", <<KwQuota, KwSpace>>,
                 <<Step("fb2-step1", TxtOpenApp), Step("fb2-step2", TxtSendTestNow)>>)>>,
     escalation |-> [when |-> "All steps completed without resolution",
                     target |-> "Gmail Tier 2 Support"]]

ArticleOutlook ==
    [id |-> 2,
     title |-> TitleOutlook,
     tags |-> <<TagEmail, TagOutlook>>,
     product |-> ProductOutlook,
     keywords |-> <<KeyEmail, KeyMail>>,
     steps |-> <<Step("step1", TxtSendTest)>>,
     fallbacks |-> <<
        Fallback("fallback1", "no-change", <<KwMode>>,
                 <<Step("fb1-step1", TxtPortAndHost)>>)>>,
     escalation |-> [when |-> "Mailbox still not syncing",
                     target |-> "Exchange Admin"]]

ArticleEmpty ==
    [id |-> 3,
     title |-> TitlePrinter,
     tags |-> <<TagPrinter>>,
     product |-> ProductHP,
     keywords |-> <<KeyPrinter>>,
     steps |-> <<>>,
     fallbacks |-> <<
        Fallback("fallback1", "no-change", <<KwQuota>>,
                 <<Step("fb1-step1", TxtResetPwd)>>)>>,
     escalation |-> [when |-> "Nothing to try", target |-> "Help Desk"]]

(* the KB handed to new MockRetrievalProvider(articles), in its order,     *)
(* as getAllArticles returns it                                            *)
Articles == <<ArticleEmail, ArticleOutlook, ArticleEmpty>>

(* JavaScript null, for an article, an article id and a step *)
NullArticle == [id |-> 0, steps |-> <<>>, fallbacks |-> <<>>,
                escalation |-> [when |-> "", target |-> ""]]
NullId == 0
NullStep == [id |-> "null", text |-> <<>>]

ReasonCategories == {"system-error", "no-change", "permission-issue"}
Notes == {NoteSmtpPort, NoteQuota, NoteSmtpQuota}

(***************************************************************************)
(* Deduplication.  The similarity of two texts of the corpus is computed   *)
(* once and looked up afterwards; any other pair is computed on the spot.  *)
(***************************************************************************)
CorpusTexts ==
    UNION {{a.steps[i].text : i \in DOMAIN a.steps} \cup
           UNION {{a.fallbacks[f].steps[i].text : i \in DOMAIN a.fallbacks[f].steps} :
                  f \in DOMAIN a.fallbacks} : a \in Range(Articles)}

SimilarTable ==
    [t1 \in CorpusTexts |-> {t2 \in CorpusTexts : areStepsSimilar(t1, t2)}]

similar(text1, text2) ==
    IF text1 \in CorpusTexts /\ text2 \in CorpusTexts
    THEN text2 \in SimilarTable[text1]
    ELSE areStepsSimilar(text1, text2)

(* findStepsToSkip that compares with the first completed text only *)
findStepsToSkip_firstOnly(fallbackSteps, completedStepTexts) ==
    {i \in 0 .. Len(fallbackSteps) - 1 :
        /\ completedStepTexts # <<>>
        /\ similar(fallbackSteps[i + 1].text, completedStepTexts[1])}

(* findStepsToSkip: the set of indices (0-based, as in the code) *)
findStepsToSkip(fallbackSteps, completedStepTexts) ==
    {i \in 0 .. Len(fallbackSteps) - 1 :
        \E j \in DOMAIN completedStepTexts :
            similar(fallbackSteps[i + 1].text, completedStepTexts[j])}

(* calculateKeywordOverlap counting a keyword that is part of a query token *)
calculateKeywordOverlap_substring(triggerKeywords, queryTokens) ==
    IF Len(triggerKeywords) = 0 THEN 0
    ELSE IF Len(queryTokens) = 0 THEN 0
    ELSE Cardinality({k \in DOMAIN triggerKeywords :
            \E t \in DOMAIN queryTokens :
               \E i \in 0 .. (Len(queryTokens[t]) - Len(triggerKeywords[k])) :
                  SubSeq(queryTokens[t], i + 1, i + Len(triggerKeywords[k]))
                     = toLowerCase(triggerKeywords[k])})

calculateKeywordOverlap(triggerKeywords, queryTokens) ==
    IF Len(triggerKeywords) = 0 THEN 0
    ELSE IF Len(queryTokens) = 0 THEN 0
    ELSE LET querySet == Range(queryTokens)
         IN  Cardinality({k \in DOMAIN triggerKeywords :
                             toLowerCase(triggerKeywords[k]) \in querySet})

(***************************************************************************)
(* StepRunner.  Every method is an operator from the state before the call *)
(* (st) and the arguments to the state after it and the value returned.    *)
(***************************************************************************)
(* reset that leaves the path unset *)
reset_nullPath ==
    [selectedArticleId |-> NullId,
     activePath |-> "null",
     currentStepIndex |-> 0,
     completedStepIds |-> <<>>,
     attemptedPaths |-> <<>>,
     failureHistory |-> <<>>,
     skippedStepsCount |-> 0]

reset ==
    [selectedArticleId |-> NullId,
     activePath |-> "main",
     currentStepIndex |-> 0,
     completedStepIds |-> <<>>,
     attemptedPaths |-> <<>>,
     failureHistory |-> <<>>,
     skippedStepsCount |-> 0]

(* JavaScript null / undefined, for a fallback *)
NullFallback == [id |-> "null", reason_category |-> "null",
                 trigger_keywords |-> <<>>, steps |-> <<>>]

(* article.fallbacks?.find(f => f.id === path): the first one with that id *)
findFallbackById(article, path) ==
    LET hits == {i \in DOMAIN article.fallbacks : article.fallbacks[i].id = path}
    IN  IF hits = {} THEN NullFallback
        ELSE article.fallbacks[CHOOSE i \in hits : \A j \in hits : i <= j]

getTotalSteps(st, article) ==
    IF article = NullArticle THEN 0
    ELSE IF st.activePath = "main" THEN Len(article.steps)
    ELSE Len(findFallbackById(article, st.activePath).steps)

getStepsForActivePath(st, article) ==
    IF article = NullArticle THEN <<>>
    ELSE IF st.activePath = "main" THEN article.steps
    ELSE findFallbackById(article, st.activePath).steps

getCurrentStep(st, article) ==
    IF article = NullArticle THEN NullStep
    ELSE LET steps == getStepsForActivePath(st, article)
         IN  IF st.currentStepIndex >= Len(steps) THEN NullStep
             ELSE steps[st.currentStepIndex + 1]

(* Set.prototype.add on a Set kept in insertion order *)
setAdd(ids, id) == IF id \in Range(ids) THEN ids ELSE Append(ids, id)

(* startArticle that does not reset first *)
startArticle_noReset(st, articleId, article, now) ==
    LET s1 == [st EXCEPT !.selectedArticleId = articleId,
                         !.activePath = "main",
                         !.currentStepIndex = 0,
                         !.attemptedPaths =
                             Append(@, [path |-> "main", startedAt |-> now])]
    IN  [state |-> s1,
         ret |-> [totalSteps |-> getTotalSteps(s1, article),
                  currentStep |-> getCurrentStep(s1, article)]]

startArticle(st, articleId, article, now) ==
    LET s1 == [reset EXCEPT !.selectedArticleId = articleId,
                            !.activePath = "main",
                            !.currentStepIndex = 0,
                            !.attemptedPaths =
                                Append(@, [path |-> "main", startedAt |-> now])]
    IN  [state |-> s1,
         ret |-> [totalSteps |-> getTotalSteps(s1, article),
                  currentStep |-> getCurrentStep(s1, article)]]

(* continue that also marks the step it moves to *)
continue_marksNext(st, article) ==
    LET currentStep == getCurrentStep(st, article)
    IN  IF currentStep = NullStep
        THEN [state |-> st, ret |-> [completed |-> TRUE]]
        ELSE LET s0 == [st EXCEPT !.completedStepIds = setAdd(@, currentStep.id),
                                  !.currentStepIndex = @ + 1]
                 shown == getCurrentStep(s0, article)
                 s1 == IF shown = NullStep THEN s0
                       ELSE [s0 EXCEPT !.completedStepIds = setAdd(@, shown.id)]
                 steps == getStepsForActivePath(s1, article)
                 isLastStep == s1.currentStepIndex >= Len(steps)
             IN  [state |-> s1,
                  ret |-> [completed |-> isLastStep,
                           nextStep |-> IF isLastStep THEN NullStep
                                        ELSE getCurrentStep(s1, article),
                           currentStepIndex |-> s1.currentStepIndex,
                           totalSteps |-> getTotalSteps(s1, article)]]

(* continue that reports completion one call late *)
continue_lateCompleted(st, article) ==
    LET currentStep == getCurrentStep(st, article)
    IN  IF currentStep = NullStep
        THEN [state |-> st, ret |-> [completed |-> TRUE]]
        ELSE LET s1 == [st EXCEPT !.completedStepIds = setAdd(@, currentStep.id),
                                  !.currentStepIndex = @ + 1]
                 steps == getStepsForActivePath(s1, article)
                 isLastStep == s1.currentStepIndex > Len(steps)
             IN  [state |-> s1,
                  ret |-> [completed |-> isLastStep,
                           nextStep |-> IF isLastStep THEN NullStep
                                        ELSE getCurrentStep(s1, article),
                           currentStepIndex |-> s1.currentStepIndex,
                           totalSteps |-> getTotalSteps(s1, article)]]

(* continue without the guard on the current step *)
continue_pastEnd(st, article) ==
    LET currentStep == getCurrentStep(st, article)
        s1 == [st EXCEPT !.completedStepIds =
                             IF currentStep = NullStep THEN @
                             ELSE setAdd(@, currentStep.id),
                         !.currentStepIndex = @ + 1]
        steps == getStepsForActivePath(s1, article)
        isLastStep == s1.currentStepIndex >= Len(steps)
    IN  IF currentStep = NullStep
        THEN [state |-> s1, ret |-> [completed |-> TRUE]]
        ELSE [state |-> s1,
              ret |-> [completed |-> isLastStep,
                       nextStep |-> IF isLastStep THEN NullStep
                                    ELSE getCurrentStep(s1, article),
                       currentStepIndex |-> s1.currentStepIndex,
                       totalSteps |-> getTotalSteps(s1, article)]]

(* continue that, on a fallback path, jumps over the step after the one it *)
(* completes                                                               *)
continue_jumps(st, article) ==
    LET currentStep == getCurrentStep(st, article)
    IN  IF currentStep = NullStep
        THEN [state |-> st, ret |-> [completed |-> TRUE]]
        ELSE LET total == getTotalSteps(st, article)
                 s1 == [st EXCEPT !.completedStepIds = setAdd(@, currentStep.id),
                                  !.currentStepIndex =
                                      IF st.activePath # "main" /\ @ + 2 <= total
                                      THEN @ + 2 ELSE @ + 1]
                 steps == getStepsForActivePath(s1, article)
                 isLastStep == s1.currentStepIndex >= Len(steps)
             IN  [state |-> s1,
                  ret |-> [completed |-> isLastStep,
                           nextStep |-> IF isLastStep THEN NullStep
                                        ELSE getCurrentStep(s1, article),
                           currentStepIndex |-> s1.currentStepIndex,
                           totalSteps |-> getTotalSteps(s1, article)]]

(* continue that starts the path over when it is called past the last step *)
continue_wraps(st, article) ==
    LET currentStep == getCurrentStep(st, article)
    IN  IF currentStep = NullStep
        THEN [state |-> [st EXCEPT !.currentStepIndex = 0],
              ret |-> [completed |-> TRUE]]
        ELSE LET s1 == [st EXCEPT !.completedStepIds = setAdd(@, currentStep.id),
                                  !.currentStepIndex = @ + 1]
                 steps == getStepsForActivePath(s1, article)
                 isLastStep == s1.currentStepIndex >= Len(steps)
             IN  [state |-> s1,
                  ret |-> [completed |-> isLastStep,
                           nextStep |-> IF isLastStep THEN NullStep
                                        ELSE getCurrentStep(s1, article),
                           currentStepIndex |-> s1.currentStepIndex,
                           totalSteps |-> getTotalSteps(s1, article)]]

(* continue that stays on a step that is already completed *)
continue_holdsCompleted(st, article) ==
    LET currentStep == getCurrentStep(st, article)
    IN  IF currentStep = NullStep
        THEN [state |-> st, ret |-> [completed |-> TRUE]]
        ELSE IF \E i \in DOMAIN st.completedStepIds :
                    st.completedStepIds[i] = currentStep.id
        THEN [state |-> st,
              ret |-> [completed |-> FALSE, nextStep |-> currentStep,
                       currentStepIndex |-> st.currentStepIndex,
                       totalSteps |-> getTotalSteps(st, article)]]
        ELSE LET s1 == [st EXCEPT !.completedStepIds = setAdd(@, currentStep.id),
                                  !.currentStepIndex = @ + 1]
                 steps == getStepsForActivePath(s1, article)
                 isLastStep == s1.currentStepIndex >= Len(steps)
             IN  [state |-> s1,
                  ret |-> [completed |-> isLastStep,
                           nextStep |-> IF isLastStep THEN NullStep
                                        ELSE getCurrentStep(s1, article),
                           currentStepIndex |-> s1.currentStepIndex,
                           totalSteps |-> getTotalSteps(s1, article)]]

continue(st, article) ==
    LET currentStep == getCurrentStep(st, article)
    IN  IF currentStep = NullStep
        THEN [state |-> st, ret |-> [completed |-> TRUE]]
        ELSE LET s1 == [st EXCEPT !.completedStepIds = setAdd(@, currentStep.id),
                                  !.currentStepIndex = @ + 1]
                 steps == getStepsForActivePath(s1, article)
                 isLastStep == s1.currentStepIndex >= Len(steps)
             IN  [state |-> s1,
                  ret |-> [completed |-> isLastStep,
                           nextStep |-> IF isLastStep THEN NullStep
                                        ELSE getCurrentStep(s1, article),
                           currentStepIndex |-> s1.currentStepIndex,
                           totalSteps |-> getTotalSteps(s1, article)]]

(* back without the guard on the index *)
back_noGuard(st) ==
    LET s1 == [st EXCEPT !.currentStepIndex = @ - 1]
    IN  [state |-> s1,
         ret |-> [success |-> TRUE, currentStepIndex |-> s1.currentStepIndex]]

(* back that forgets the last completed step *)
back_uncompletes(st) ==
    IF st.currentStepIndex > 0
    THEN LET s1 == [st EXCEPT !.currentStepIndex = @ - 1,
                              !.completedStepIds =
                                  IF @ = <<>> THEN @ ELSE SubSeq(@, 1, Len(@) - 1)]
         IN  [state |-> s1,
              ret |-> [success |-> TRUE, currentStepIndex |-> s1.currentStepIndex]]
    ELSE [state |-> st,
          ret |-> [success |-> FALSE, message |-> "Already at first step"]]

back(st) ==
    IF st.currentStepIndex > 0
    THEN LET s1 == [st EXCEPT !.currentStepIndex = @ - 1]
         IN  [state |-> s1,
              ret |-> [success |-> TRUE, currentStepIndex |-> s1.currentStepIndex]]
    ELSE [state |-> st,
          ret |-> [success |-> FALSE, message |-> "Already at first step"]]

(* recordFailure that puts the record first (unshift instead of push) *)
recordFailure_unshift(st, stepId, reasonCategory, note, now) ==
    LET failure == [stepId |-> stepId, reasonCategory |-> reasonCategory,
                    note |-> note, timestamp |-> now]
    IN  [state |-> [st EXCEPT !.failureHistory = <<failure>> \o @],
         ret |-> failure]

recordFailure(st, stepId, reasonCategory, note, now) ==
    LET failure == [stepId |-> stepId, reasonCategory |-> reasonCategory,
                    note |-> note, timestamp |-> now]
    IN  [state |-> [st EXCEPT !.failureHistory = Append(@, failure)],
         ret |-> failure]

(* the loop of switchToFallback: the first index not in stepsToSkip, 0 when *)
(* the loop ends without finding one                                       *)
RECURSIVE firstNonSkipped(_, _, _)
firstNonSkipped(i, n, stepsToSkip) ==
    IF i >= n THEN 0
    ELSE IF i \notin stepsToSkip THEN i
    ELSE firstNonSkipped(i + 1, n, stepsToSkip)

(* switchToFallback that starts the new path with an empty ledger *)
switchToFallback_clears(st, fallbackId, article, completedStepTexts, now) ==
    LET s1 == [st EXCEPT !.activePath = fallbackId,
                         !.completedStepIds = <<>>,
                         !.attemptedPaths =
                             Append(@, [path |-> fallbackId, startedAt |-> now])]
        fallbackSteps == getStepsForActivePath(s1, article)
        stepsToSkip == findStepsToSkip(fallbackSteps, completedStepTexts)
        startIndex == firstNonSkipped(0, Len(fallbackSteps), stepsToSkip)
        s2 == [s1 EXCEPT !.currentStepIndex = startIndex,
                         !.skippedStepsCount = startIndex]
    IN  [state |-> s2,
         ret |-> [totalSteps |-> getTotalSteps(s2, article),
                  currentStep |-> getCurrentStep(s2, article),
                  skippedSteps |-> startIndex]]

(* switchToFallback that overwrites the last attempted-path record instead *)
(* of pushing a new one                                                    *)
switchToFallback_replacesLast(st, fallbackId, article, completedStepTexts, now) ==
    LET s1 == [st EXCEPT !.activePath = fallbackId,
                         !.attemptedPaths =
                             SubSeq(@, 1, Len(@) - 1)
                                \o <<[path |-> fallbackId, startedAt |-> now]>>]
        fallbackSteps == getStepsForActivePath(s1, article)
        stepsToSkip == findStepsToSkip(fallbackSteps, completedStepTexts)
        startIndex == firstNonSkipped(0, Len(fallbackSteps), stepsToSkip)
        s2 == [s1 EXCEPT !.currentStepIndex = startIndex,
                         !.skippedStepsCount = startIndex]
    IN  [state |-> s2,
         ret |-> [totalSteps |-> getTotalSteps(s2, article),
                  currentStep |-> getCurrentStep(s2, article),
                  skippedSteps |-> startIndex]]

switchToFallback(st, fallbackId, article, completedStepTexts, now) ==
    LET s1 == [st EXCEPT !.activePath = fallbackId,
                         !.attemptedPaths =
                             Append(@, [path |-> fallbackId, startedAt |-> now])]
        fallbackSteps == getStepsForActivePath(s1, article)
        stepsToSkip == findStepsToSkip(fallbackSteps, completedStepTexts)
        startIndex == firstNonSkipped(0, Len(fallbackSteps), stepsToSkip)
        consecutiveSkipped == startIndex
        s2 == [s1 EXCEPT !.currentStepIndex = startIndex,
                         !.skippedStepsCount = consecutiveSkipped]
    IN  [state |-> s2,
         ret |-> [totalSteps |-> getTotalSteps(s2, article),
                  currentStep |-> getCurrentStep(s2, article),
                  skippedSteps |-> consecutiveSkipped]]

(***************************************************************************)
(* Fallback selection.                                                     *)
(***************************************************************************)
(* Array.prototype.filter on the fallbacks, by reason_category *)
RECURSIVE filterByCategory(_, _)
filterByCategory(fallbacks, reasonCategory) ==
    IF fallbacks = <<>> THEN <<>>
    ELSE IF Head(fallbacks).reason_category = reasonCategory
         THEN <<Head(fallbacks)>> \o filterByCategory(Tail(fallbacks), reasonCategory)
         ELSE filterByCategory(Tail(fallbacks), reasonCategory)

(* the loop of findFallbackInArticle with >= for >: on equal scores the    *)
(* fallback declared last wins                                             *)
RECURSIVE bestFrom_lastWins(_, _, _, _, _)
bestFrom_lastWins(matching, i, bestFallback, bestScore, queryTokens) ==
    IF i > Len(matching) THEN bestFallback
    ELSE LET score == calculateKeywordOverlap(matching[i].trigger_keywords, queryTokens)
         IN  IF score >= bestScore
             THEN bestFrom_lastWins(matching, i + 1, matching[i], score, queryTokens)
             ELSE bestFrom_lastWins(matching, i + 1, bestFallback, bestScore,
                                    queryTokens)

(* the loop of findFallbackInArticle from index i on *)
RECURSIVE bestFrom(_, _, _, _, _)
bestFrom(matching, i, bestFallback, bestScore, queryTokens) ==
    IF i > Len(matching) THEN bestFallback
    ELSE LET score == calculateKeywordOverlap(matching[i].trigger_keywords, queryTokens)
         IN  IF score > bestScore
             THEN bestFrom(matching, i + 1, matching[i], score, queryTokens)
             ELSE bestFrom(matching, i + 1, bestFallback, bestScore, queryTokens)

(* findFallbackInArticle that settles for the first fallback of the        *)
(* article when none has the category                                      *)
findFallbackInArticle_anyCategory(article, reasonCategory, queryTokens) ==
    IF Len(article.fallbacks) = 0 THEN NullFallback
    ELSE LET matchingFallbacks == filterByCategory(article.fallbacks, reasonCategory)
         IN  IF Len(matchingFallbacks) = 0 THEN article.fallbacks[1]
             ELSE IF Len(matchingFallbacks) = 1 THEN matchingFallbacks[1]
             ELSE bestFrom(matchingFallbacks, 2, matchingFallbacks[1],
                           calculateKeywordOverlap(matchingFallbacks[1].trigger_keywords,
                                                   queryTokens),
                           queryTokens)

findFallbackInArticle(article, reasonCategory, queryTokens) ==
    IF Len(article.fallbacks) = 0 THEN NullFallback
    ELSE LET matchingFallbacks == filterByCategory(article.fallbacks, reasonCategory)
         IN  IF Len(matchingFallbacks) = 0 THEN NullFallback
             ELSE IF Len(matchingFallbacks) = 1 THEN matchingFallbacks[1]
             ELSE bestFrom(matchingFallbacks, 2, matchingFallbacks[1],
                           calculateKeywordOverlap(matchingFallbacks[1].trigger_keywords,
                                                   queryTokens),
                           queryTokens)

(* null, for the pair returned by findFallbackAcrossArticles *)
NullMatch == [article |-> NullArticle, fallback |-> NullFallback]

(* findFallbackAcrossArticles that keeps the match of the last article     *)
(* that has one                                                            *)
RECURSIVE findFallbackAcrossArticles_last(_, _, _, _)
findFallbackAcrossArticles_last(allArticles, reasonCategory, queryTokens, currentArticleId) ==
    IF allArticles = <<>> THEN NullMatch
    ELSE LET later == findFallbackAcrossArticles_last(Tail(allArticles), reasonCategory,
                                                      queryTokens, currentArticleId)
             fallback == findFallbackInArticle(Head(allArticles), reasonCategory,
                                               queryTokens)
         IN  IF later # NullMatch THEN later
             ELSE IF Head(allArticles).id # currentArticleId /\ fallback # NullFallback
             THEN [article |-> Head(allArticles), fallback |-> fallback]
             ELSE NullMatch

RECURSIVE findFallbackAcrossArticles(_, _, _, _)
findFallbackAcrossArticles(allArticles, reasonCategory, queryTokens, currentArticleId) ==
    IF allArticles = <<>> THEN NullMatch
    ELSE IF Head(allArticles).id = currentArticleId
         THEN findFallbackAcrossArticles(Tail(allArticles), reasonCategory,
                                         queryTokens, currentArticleId)
         ELSE LET fallback == findFallbackInArticle(Head(allArticles), reasonCategory,
                                                    queryTokens)
              IN  IF fallback # NullFallback
                  THEN [article |-> Head(allArticles), fallback |-> fallback]
                  ELSE findFallbackAcrossArticles(Tail(allArticles), reasonCategory,
                                                  queryTokens, currentArticleId)

(* selectFallback that escalates without looking at the other articles *)
selectFallback_sameArticleOnly(st, article, allArticles, reasonCategory, failureNote) ==
    LET queryTokens == normalizeToTokens(failureNote)
        fallbackInArticle == findFallbackInArticle(article, reasonCategory, queryTokens)
    IN  [state |-> st,
         ret |-> IF fallbackInArticle # NullFallback
                 THEN [type |-> "same-article", fallback |-> fallbackInArticle,
                       article |-> article]
                 ELSE [type |-> "escalation", escalation |-> article.escalation]]

(* selectFallback that prefers the other article when its fallback has     *)
(* more trigger keywords in the note                                       *)
selectFallback_bestOverlap(st, article, allArticles, reasonCategory, failureNote) ==
    LET queryTokens == normalizeToTokens(failureNote)
        fallbackInArticle == findFallbackInArticle(article, reasonCategory, queryTokens)
        crossArticleResult == findFallbackAcrossArticles(allArticles, reasonCategory,
                                                         queryTokens, article.id)
        better == /\ crossArticleResult # NullMatch
                  /\ fallbackInArticle # NullFallback
                  /\ calculateKeywordOverlap(crossArticleResult.fallback.trigger_keywords,
                                             queryTokens)
                       > calculateKeywordOverlap(fallbackInArticle.trigger_keywords,
                                                 queryTokens)
    IN  [state |-> st,
         ret |-> IF fallbackInArticle # NullFallback /\ ~better
                 THEN [type |-> "same-article", fallback |-> fallbackInArticle,
                       article |-> article]
                 ELSE IF crossArticleResult # NullMatch
                 THEN [type |-> "cross-article",
                       fallback |-> crossArticleResult.fallback,
                       article |-> crossArticleResult.article]
                 ELSE [type |-> "escalation", escalation |-> article.escalation]]

(* selectFallback that leaves out the fallbacks the runner has already     *)
(* attempted, and notes the selection in the RunState                      *)
selectFallback_skipsAttempted(st, article, allArticles, reasonCategory, failureNote) ==
    LET queryTokens == normalizeToTokens(failureNote)
        attempted == {st.attemptedPaths[i].path : i \in DOMAIN st.attemptedPaths}
        untried == [article EXCEPT !.fallbacks =
                       SelectSeq(@, LAMBDA f : f.id \notin attempted)]
        fallbackInArticle == findFallbackInArticle(untried, reasonCategory, queryTokens)
        crossArticleResult == findFallbackAcrossArticles(allArticles, reasonCategory,
                                                         queryTokens, article.id)
    IN  [state |-> st,
         ret |-> IF fallbackInArticle # NullFallback
                 THEN [type |-> "same-article", fallback |-> fallbackInArticle,
                       article |-> article]
                 ELSE IF crossArticleResult # NullMatch
                 THEN [type |-> "cross-article",
                       fallback |-> crossArticleResult.fallback,
                       article |-> crossArticleResult.article]
                 ELSE [type |-> "escalation", escalation |-> article.escalation]]

(* selectFallback, a method of the Step Runner: st is this.state, which    *)
(* the method has at hand like every other method; state is this.state     *)
(* when it returns and ret the value returned                              *)
selectFallback(st, article, allArticles, reasonCategory, failureNote) ==
    LET queryTokens == normalizeToTokens(failureNote)
        fallbackInArticle == findFallbackInArticle(article, reasonCategory, queryTokens)
        crossArticleResult == findFallbackAcrossArticles(allArticles, reasonCategory,
                                                         queryTokens, article.id)
    IN  [state |-> st,
         ret |-> IF fallbackInArticle # NullFallback
                 THEN [type |-> "same-article", fallback |-> fallbackInArticle,
                       article |-> article]
                 ELSE IF crossArticleResult # NullMatch
                 THEN [type |-> "cross-article",
                       fallback |-> crossArticleResult.fallback,
                       article |-> crossArticleResult.article]
                 ELSE [type |-> "escalation", escalation |-> article.escalation]]

(* getState: the state with completedStepIds as an array, Array.from(Set),  *)
(* which lists the ids in insertion order, as the sequence here does       *)
getState(st) == [st EXCEPT !.completedStepIds = [i \in 1 .. Len(@) |-> @[i]]]

(* isComplete with > for >= *)
isComplete_strict(st, article) ==
    LET steps == getStepsForActivePath(st, article)
    IN  st.currentStepIndex > Len(steps)

isComplete(st, article) ==
    LET steps == getStepsForActivePath(st, article)
    IN  st.currentStepIndex >= Len(steps)

(* getSkippedStepsCount *)
getSkippedStepsCount(st) == st.skippedStepsCount

(* clearSkippedStepsCount: the count goes back to 0, the rest of the state *)
(* stays; no handler of the side panel calls it                            *)
clearSkippedStepsCount(st) == [st EXCEPT !.skippedStepsCount = 0]

(* String.prototype.trim *)
RECURSIVE trimStart(_)
trimStart(text) ==
    IF text # <<>> /\ isSpaceChar(Head(text)) THEN trimStart(Tail(text)) ELSE text

RECURSIVE trimEnd(_)
trimEnd(text) ==
    IF text # <<>> /\ isSpaceChar(text[Len(text)])
    THEN trimEnd(SubSeq(text, 1, Len(text) - 1))
    ELSE text

trim(text) == trimEnd(trimStart(text))

(***************************************************************************)
(* The KB loader: the source URL, the in-memory cache and the extension    *)
(* storage, with the remote fetch and the storage calls as environment.    *)
(***************************************************************************)
(* what setKBSourceUrl can be given and the storage can hold as source    *)
(* URL: the empty string, a blank string, a string that names an endpoint, *)
(* and a value that is no string, the number 42 (kept as a sequence whose  *)
(* one element is no code unit)                                            *)
UrlNone   == <<>>
UrlBlank  == <<" ">>
UrlKb     == <<"h", "t", "t", "p", "s", ":", "/", "/", "k", "b">>
UrlNumber == <<"number 42">>
Urls == {UrlNone, UrlBlank, UrlKb, UrlNumber}

(* typeof url === 'string' *)
isString(url) == url # UrlNumber

(* a KB is kept as the list of the ids of its articles; getMockKB gives   *)
(* the five articles of the built-in KB                                    *)
MockKB == <<1, 2, 3, 4, 5>>

(* the id of a remote article *)
RemoteArticleId == 7

(* the arrays a remote endpoint answers with, the empty array included *)
RemoteKBs == UNION {[1 .. n -> {RemoteArticleId}] : n \in 0 .. MaxRemoteArticles}

(* JavaScript null for a KB and for a timestamp *)
NullKB == <<NullId>>
NoTimestamp == -1

(* chrome.storage.local with nothing stored *)
EmptyStorage ==
    [kb_source_url |-> UrlNone, cached_kb |-> NullKB,
     cached_kb_timestamp |-> NoTimestamp]

(* how fetch(url) settles: rejected, or resolved with a response whose ok  *)
(* is false or true                                                        *)
FetchAnswers == {"network-error", "http-error", "ok"}

(* how response.json() settles: rejected for a body that is no JSON, or    *)
(* resolved with a value that is no array or with an array                 *)
JsonAnswers ==
    {[kind |-> "invalid-json"], [kind |-> "not-array"]}
    \cup {[kind |-> "array", data |-> kb] : kb \in RemoteKBs}

(* the module as loaded, before its initialization has read the storage:  *)
(* kbSourceUrl = '' and cachedKB = null                                    *)
ModuleLoaded(storage) ==
    [kbSourceUrl |-> UrlNone, cachedKB |-> NullKB, storage |-> storage]

(* initKBLoader: the stored URL becomes kbSourceUrl when the read succeeds *)
(* and gives a truthy value (a string that is not empty, or the number); a *)
(* failed read is logged                                                   *)
initKBLoader(ld, getOk) ==
    [ld EXCEPT !.kbSourceUrl = IF getOk /\ ld.storage.kb_source_url # <<>>
                               THEN ld.storage.kb_source_url ELSE @]

(* cacheKB: a failed write is logged and leaves the storage as it was *)
cacheKB(storage, kb, now, setOk) ==
    IF setOk
    THEN [storage EXCEPT !.cached_kb = kb, !.cached_kb_timestamp = now]
    ELSE storage

NullCached == [kb |-> NullKB, timestamp |-> NoTimestamp]

(* loadCachedKB: a stored array (even empty) and a stored timestamp        *)
(* (Date.now() is positive) are truthy; a failed read gives null           *)
loadCachedKB(storage, getOk) ==
    IF getOk /\ storage.cached_kb # NullKB
             /\ storage.cached_kb_timestamp # NoTimestamp
    THEN [kb |-> storage.cached_kb, timestamp |-> storage.cached_kb_timestamp]
    ELSE NullCached

(* the loader of a profile that never stored anything, initialized *)
FreshLoader == initKBLoader(ModuleLoaded(EmptyStorage), TRUE)

(***************************************************************************)
(* The state machine.                                                      *)
(*   state          : StepRunner.state                                     *)
(*   currentArticle : the article the caller holds and passes to each call, *)
(*                    by its id (the corpus is immutable)                  *)
(*   result         : the operation called last, the value it returned and, *)
(*                    for the fallback and deduplication calls, its        *)
(*                    arguments                                            *)
(*   clock          : the instant new Date() read last; it never goes back *)
(*   continuedIds   : the ids of the steps that were the current step when  *)
(*                    continue was called, since the last reset            *)
(*   run            : the number of continue calls since startArticle with  *)
(*                    no other call in between (-1 otherwise)              *)
(*   wasDirty       : whether the state before the last call held completed *)
(*                    steps and failures                                   *)
(*   loader         : the KB loader: kbSourceUrl, cachedKB and the          *)
(*                    extension storage                                    *)
(*   chat           : the chat of the side panel: the value of the input    *)
(*                    field, whether it is disabled, and the messages      *)
(*   pending        : the async calls in flight, each at the await it       *)
(*                    waits on: those of the KB loader in SpecLoader,      *)
(*                    those of handleUserInput in SpecPanel                *)
(* The actions Reset to ClearSkippedStepsCount are the methods of the Step *)
(* Runner, one call each, made by a caller that keeps in currentArticle    *)
(* the article it passes; they are no handlers of the side panel and never *)
(* touch the chat.  The caller follows the protocol of the side panel: a   *)
(* failure is recorded on the step shown, selectFallback follows           *)
(* recordFailure and switchToFallback follows a selectFallback that found  *)
(* a fallback, with the texts of the completed main steps of the article   *)
(* held until then.  The events of the side panel and the steps of its     *)
(* handlers are the actions of SpecPanel.                                  *)
(***************************************************************************)
VARIABLES state, currentArticle, result, clock, continuedIds, run, wasDirty, loader,
          chat, pending

vars == <<state, currentArticle, result, clock, continuedIds, run, wasDirty, loader,
          chat, pending>>

(* the chat of the side panel after init(): the input field empty and     *)
(* enabled, the welcome message shown                                      *)
EmptyChat == [value |-> <<>>, disabled |-> FALSE, messages |-> <<"welcome">>]

(* MockRetrievalProvider.getArticle: the article with that id, or null *)
getArticle(id) ==
    IF \E i \in DOMAIN Articles : Articles[i].id = id
    THEN Articles[CHOOSE i \in DOMAIN Articles : Articles[i].id = id]
    ELSE NullArticle

(* the texts the failure handler collects for deduplication: those of the  *)
(* main steps of the article it holds whose ids are completed, in order    *)
RECURSIVE collectCompleted(_, _)
collectCompleted(allSteps, completedStepIds) ==
    IF allSteps = <<>> THEN <<>>
    ELSE IF Head(allSteps).id \in Range(completedStepIds)
         THEN <<Head(allSteps).text>> \o collectCompleted(Tail(allSteps), completedStepIds)
         ELSE collectCompleted(Tail(allSteps), completedStepIds)

RECURSIVE SetToSeq(_)
SetToSeq(S) ==
    IF S = {} THEN <<>>
    ELSE LET x == CHOOSE y \in S : TRUE IN <<x>> \o SetToSeq(S \ {x})

(* what the failure form submits: a reason category and a note *)
FailureInputs == {<<"system-error", NoteSmtpPort>>, <<"no-change", NoteQuota>>}

(* longest main path plus one: where the count of consecutive continue    *)
(* calls stops growing                                                     *)
RunCap == Len(ArticleEmail.steps) + 1

nextRun(k) == IF k < 0 THEN k ELSE IF k >= RunCap THEN RunCap ELSE k + 1

(* what new Date() can read now *)
Instants == clock .. MaxClock

(* a state that holds completed steps and failures *)
Dirty(st) == st.completedStepIds # <<>> /\ st.failureHistory # <<>>

Init ==
    /\ state = reset
    /\ currentArticle = NullId
    /\ result = [op |-> "new"]
    /\ clock = 0
    /\ continuedIds = {}
    /\ run = -1
    /\ wasDirty = FALSE
    /\ loader = FreshLoader
    /\ chat = EmptyChat
    /\ pending = <<>>

Reset ==
    /\ state' = reset
    /\ currentArticle' = NullId
    /\ result' = [op |-> "reset"]
    /\ continuedIds' = {}
    /\ run' = -1
    /\ wasDirty' = Dirty(state)
    /\ UNCHANGED clock
    /\ UNCHANGED <<loader, chat, pending>>

StartArticle ==
    \E i \in DOMAIN Articles, now \in Instants :
        LET r == startArticle(state, Articles[i].id, Articles[i], now)
        IN  /\ state' = r.state
            /\ currentArticle' = Articles[i].id
            /\ result' = [op |-> "startArticle", ret |-> r.ret]
            /\ clock' = now
            /\ continuedIds' = {}
            /\ run' = 0
            /\ wasDirty' = Dirty(state)
            /\ UNCHANGED <<loader, chat, pending>>

Continue ==
    LET r == continue(state, getArticle(currentArticle))
    IN  /\ state' = r.state
        /\ result' = [op |-> "continue", ret |-> r.ret]
        /\ continuedIds' = continuedIds \cup
                ({getCurrentStep(state, getArticle(currentArticle)).id} \ {NullStep.id})
        /\ run' = nextRun(run)
        /\ wasDirty' = Dirty(state)
        /\ UNCHANGED <<currentArticle, clock>>
        /\ UNCHANGED <<loader, chat, pending>>

Back ==
    LET r == back(state)
    IN  /\ state' = r.state
        /\ result' = [op |-> "back", ret |-> r.ret]
        /\ run' = -1
        /\ wasDirty' = Dirty(state)
        /\ UNCHANGED <<currentArticle, clock, continuedIds>>
        /\ UNCHANGED <<loader, chat, pending>>

(* A failure is reported on the step that is shown, up to max failures. *)
RecordFailureUpTo(max) ==
    /\ Len(state.failureHistory) < max
    /\ getCurrentStep(state, getArticle(currentArticle)) # NullStep
    /\ \E input \in FailureInputs, now \in Instants :
        LET step == getCurrentStep(state, getArticle(currentArticle))
            r == recordFailure(state, step.id, input[1], input[2], now)
        IN  /\ state' = r.state
            /\ result' = [op |-> "recordFailure", ret |-> r.ret]
            /\ clock' = now
    /\ run' = -1
    /\ wasDirty' = Dirty(state)
    /\ UNCHANGED <<currentArticle, continuedIds>>
    /\ UNCHANGED <<loader, chat, pending>>

RecordFailure == RecordFailureUpTo(MaxFailures)

RecordFailureAgain == RecordFailureUpTo(MaxRecords)

(* The caller selects a fallback for the failure it has just recorded;     *)
(* selectFallback reads currentArticle.fallbacks, so it needs an article.  *)
SelectFallback ==
    /\ currentArticle # NullId
    /\ result.op = "recordFailure"
    /\ \E reasonCategory \in ReasonCategories, note \in Notes :
       \E r \in {selectFallback(state, getArticle(currentArticle), Articles,
                                reasonCategory, note)} :
            /\ state' = r.state
            /\ result' = [op |-> "selectFallback",
                          args |-> [currentArticle |-> currentArticle,
                                    reasonCategory |-> reasonCategory,
                                    failureNote |-> note],
                          ret |-> r.ret]
    /\ run' = -1
    /\ wasDirty' = Dirty(state)
    /\ UNCHANGED <<currentArticle, clock, continuedIds>>
    /\ UNCHANGED <<loader, chat, pending>>

(* The caller switches to the fallback selectFallback has just returned,   *)
(* with the article that owns it, which becomes the article it holds, and  *)
(* with the texts of the completed main steps of the article it held.      *)
SwitchToFallback ==
    /\ result.op = "selectFallback"
    /\ result.ret.type \in {"same-article", "cross-article"}
    /\ Len(state.attemptedPaths) < MaxAttempts
    /\ \E now \in Instants :
        LET texts == collectCompleted(getArticle(currentArticle).steps,
                                      getState(state).completedStepIds)
            r == switchToFallback(state, result.ret.fallback.id, result.ret.article,
                                  texts, now)
        IN  /\ state' = r.state
            /\ currentArticle' = result.ret.article.id
            /\ result' = [op |-> "switchToFallback",
                          args |-> [fallbackId |-> result.ret.fallback.id,
                                    article |-> result.ret.article.id,
                                    completedStepTexts |-> texts],
                          ret |-> r.ret]
            /\ clock' = now
    /\ run' = -1
    /\ wasDirty' = Dirty(state)
    /\ UNCHANGED continuedIds
    /\ UNCHANGED <<loader, chat, pending>>

(* clearSkippedStepsCount() is a public method the caller may call at any  *)
(* time; it returns nothing                                                *)
ClearSkippedStepsCount ==
    /\ state' = clearSkippedStepsCount(state)
    /\ result' = [op |-> "clearSkippedStepsCount"]
    /\ run' = -1
    /\ wasDirty' = Dirty(state)
    /\ UNCHANGED <<currentArticle, clock, continuedIds>>
    /\ UNCHANGED <<loader, chat, pending>>

Next ==
    \/ Reset
    \/ StartArticle
    \/ Continue
    \/ Back
    \/ RecordFailure
    \/ SelectFallback
    \/ SwitchToFallback
    \/ ClearSkippedStepsCount

Spec == Init /\ [][Next]_vars

(* Sessions in which no fallback is taken: every failure ends in a         *)
(* selection the caller does not follow, and more failures are recorded.   *)
NextHistory ==
    \/ Reset
    \/ StartArticle
    \/ Continue
    \/ Back
    \/ RecordFailureAgain
    \/ SelectFallback
    \/ ClearSkippedStepsCount

SpecHistory == Init /\ [][NextHistory]_vars

(***************************************************************************)
(* The deduplication functions on their own: a call is recorded in result  *)
(* with its arguments; the Step Runner stays as constructed.  The          *)
(* functions keep no state, so a behaviour is a single call.               *)
(***************************************************************************)
(* one-letter words, in lower and in upper case *)
Vocabulary      == <<"a", "b", "c", "d", "e", "f", "g">>
VocabularyUpper == <<"A", "B", "C", "D", "E", "F", "G">>

(* the words numbered in S, from word i on, each followed by sep unless it *)
(* is the last                                                             *)
RECURSIVE joinFrom(_, _, _, _)
joinFrom(i, S, sep, upper) ==
    IF i > MaxWords THEN <<>>
    ELSE IF i \notin S THEN joinFrom(i + 1, S, sep, upper)
    ELSE <<IF upper THEN VocabularyUpper[i] ELSE Vocabulary[i]>>
         \o (IF \E j \in S : j > i THEN sep ELSE <<>>)
         \o joinFrom(i + 1, S, sep, upper)

(* "a b c" *)
plainText(S) == joinFrom(1, S, <<" ">>, FALSE)

(* "A, B, C!" *)
loudText(S) == joinFrom(1, S, <<",", " ">>, TRUE) \o <<"!">>

(* the step texts areStepsSimilar is called with *)
SimTexts ==
    {plainText(S) : S \in SUBSET (1 .. MaxWords)} \cup
    {loudText(S) : S \in SUBSET (1 .. MaxWords)}

AreStepsSimilar ==
    /\ result.op = "new"
    /\ \E text1 \in SimTexts, text2 \in SimTexts :
          result' = [op |-> "areStepsSimilar",
                     args |-> [text1 |-> text1, text2 |-> text2],
                     ret |-> areStepsSimilar(text1, text2)]
    /\ UNCHANGED <<state, currentArticle, clock, continuedIds, run, wasDirty>>
    /\ UNCHANGED <<loader, chat, pending>>

(* the candidate step lists findStepsToSkip is called with: up to MaxSteps *)
(* steps with texts of the corpus                                          *)
StepIds == <<"s1", "s2", "s3", "s4">>

CandidateSteps ==
    UNION {[1 .. n -> CorpusTexts] : n \in 0 .. MaxSteps}

(* the completed texts findStepsToSkip is called with *)
CompletedTexts ==
    {T \in SUBSET CorpusTexts : Cardinality(T) <= MaxCompleted}

FindStepsToSkip ==
    /\ result.op = "new"
    /\ \E candidate \in CandidateSteps, completed \in CompletedTexts :
          LET fallbackSteps == [i \in DOMAIN candidate |->
                                   Step(StepIds[i], candidate[i])]
              completedStepTexts == SetToSeq(completed)
          IN  result' = [op |-> "findStepsToSkip",
                         args |-> [fallbackSteps |-> fallbackSteps,
                                   completedStepTexts |-> completedStepTexts],
                         ret |-> findStepsToSkip(fallbackSteps, completedStepTexts)]
    /\ UNCHANGED <<state, currentArticle, clock, continuedIds, run, wasDirty>>
    /\ UNCHANGED <<loader, chat, pending>>

(* the token sequences calculateJaccardSimilarity is called with: up to    *)
(* MaxTokens tokens, repetitions included                                  *)
Tokens == {<<Vocabulary[i]>> : i \in 1 .. 3}

TokenSeqs == UNION {[1 .. n -> Tokens] : n \in 0 .. MaxTokens}

CalculateJaccardSimilarity ==
    /\ result.op = "new"
    /\ \E tokens1 \in TokenSeqs, tokens2 \in TokenSeqs :
          result' = [op |-> "calculateJaccardSimilarity",
                     args |-> [tokens1 |-> tokens1, tokens2 |-> tokens2],
                     ret |-> calculateJaccardSimilarity(tokens1, tokens2)]
    /\ UNCHANGED <<state, currentArticle, clock, continuedIds, run, wasDirty>>
    /\ UNCHANGED <<loader, chat, pending>>

(* the trigger keywords calculateKeywordOverlap is called with: plain, in  *)
(* upper case, a part of a word, two words, and with punctuation           *)
KwSmtpUpper == <<"S", "M", "T", "P">>
KwPor       == <<"p", "o", "r">>
KwSmtpPort  == <<"s", "m", "t", "p", " ", "p", "o", "r", "t">>
KwPortDot   == <<"p", "o", "r", "t", ".">>

KeywordPool == {KwSmtp, KwSmtpUpper, KwPort, KwPor, KwSmtpPort, KwPortDot, KwSpace}

KeywordLists == UNION {[1 .. n -> KeywordPool] : n \in 0 .. MaxKeywords}

(* the notes whose tokens calculateKeywordOverlap is called with *)
OverlapNotes == Notes \cup {<<>>}

CalculateKeywordOverlap ==
    /\ result.op = "new"
    /\ \E triggerKeywords \in KeywordLists, note \in OverlapNotes :
          LET queryTokens == normalizeToTokens(note)
          IN  result' = [op |-> "calculateKeywordOverlap",
                         args |-> [triggerKeywords |-> triggerKeywords,
                                   queryTokens |-> queryTokens],
                         ret |-> calculateKeywordOverlap(triggerKeywords, queryTokens)]
    /\ UNCHANGED <<state, currentArticle, clock, continuedIds, run, wasDirty>>
    /\ UNCHANGED <<loader, chat, pending>>

NextDedup ==
    \/ AreStepsSimilar
    \/ FindStepsToSkip
    \/ CalculateJaccardSimilarity
    \/ CalculateKeywordOverlap

SpecDedup == Init /\ [][NextDedup]_vars

(***************************************************************************)
(* Retrieval (MockRetrievalProvider over the corpus).                      *)
(***************************************************************************)
(* String.prototype.includes *)
includes(s, sub) ==
    \E i \in 0 .. (Len(s) - Len(sub)) : SubSeq(s, i + 1, i + Len(sub)) = sub

(* Array.prototype.slice(0, end), end >= 0 *)
slice(seq, end) == SubSeq(seq, 1, IF end < Len(seq) THEN end ELSE Len(seq))

(* the default of the option limit *)
DefaultLimit == 3

(* const { limit = 3 } = options; options without limit is the empty record *)
limitOf(options) ==
    IF "limit" \in DOMAIN options THEN options.limit ELSE DefaultLimit

(* queryTokens.some(token => tag.toLowerCase().includes(token)) *)
tagMatches(tag, queryTokens) ==
    \E k \in DOMAIN queryTokens : includes(toLowerCase(tag), queryTokens[k])

(* the body of this.articles.map: one RetrievalResult *)
scoreArticle(article, queryLower, queryTokens) ==
    LET tagHits == SelectSeq(article.tags,
                             LAMBDA tag : tagMatches(tag, queryTokens))
        productMatch == /\ article.product # <<>>
                        /\ includes(queryLower, toLowerCase(article.product))
        titleMatch == /\ article.title # <<>>
                      /\ includes(toLowerCase(article.title), queryLower)
        keywordHits == SelectSeq(article.keywords,
                          LAMBDA keyword : includes(queryLower, toLowerCase(keyword)))
    IN  [article |-> article,
         score |-> 3 * Len(tagHits) + (IF productMatch THEN 2 ELSE 0)
                   + (IF titleMatch THEN 1 ELSE 0) + Len(keywordHits),
         matchInfo |-> [tagMatches |-> tagHits, productMatch |-> productMatch,
                        titleMatch |-> titleMatch, keywordMatches |-> keywordHits]]

(* .sort((a, b) => b.score - a.score): stable, highest score first *)
RECURSIVE insertByScore(_, _)
insertByScore(sorted, r) ==
    IF sorted = <<>> THEN <<r>>
    ELSE IF Head(sorted).score >= r.score
         THEN <<Head(sorted)>> \o insertByScore(Tail(sorted), r)
         ELSE <<r>> \o sorted

RECURSIVE sortByScore(_)
sortByScore(results) ==
    IF results = <<>> THEN <<>>
    ELSE insertByScore(sortByScore(SubSeq(results, 1, Len(results) - 1)),
                       results[Len(results)])

(* search cutting the list before it is sorted *)
search_sliceFirst(articles, query, options) ==
    LET queryLower == toLowerCase(query)
        queryTokens == splitWhitespace(queryLower)
        results == [i \in DOMAIN articles |->
                       scoreArticle(articles[i], queryLower, queryTokens)]
    IN  sortByScore(slice(SelectSeq(results, LAMBDA r : r.score > 0),
                          limitOf(options)))

search(articles, query, options) ==
    LET queryLower == toLowerCase(query)
        queryTokens == splitWhitespace(queryLower)
        results == [i \in DOMAIN articles |->
                       scoreArticle(articles[i], queryLower, queryTokens)]
    IN  slice(sortByScore(SelectSeq(results, LAMBDA r : r.score > 0)),
              limitOf(options))

LOW_CONFIDENCE_THRESHOLD == 9

(* JavaScript null or undefined, for a result list: a value no list of     *)
(* results equals                                                          *)
NullResults == <<[article |-> NullId, score |-> 0, missing |-> TRUE]>>

(* isLowConfidence with <= for < *)
isLowConfidence_atMost(results) ==
    IF results = NullResults \/ Len(results) = 0 THEN TRUE
    ELSE results[1].score <= LOW_CONFIDENCE_THRESHOLD

isLowConfidence(results) ==
    IF results = NullResults \/ Len(results) = 0 THEN TRUE
    ELSE results[1].score < LOW_CONFIDENCE_THRESHOLD

(***************************************************************************)
(* The retrieval functions on their own: a call is recorded in result with *)
(* its arguments.  They keep no state, so a behaviour is a single call.    *)
(***************************************************************************)
(* the words the queries are made of *)
QueryWords ==
    <<<<"G", "m", "a", "i", "l">>,
      <<"e", "m", "a", "i", "l">>,
      <<"n", "o", "t">>,
      <<"m", "a", "i", "l">>,
      <<"p", "r", "i", "n", "t", "e", "r">>,
      <<"w", "i", "f", "i">>,
      <<"s", "e", "n", "d", "i", "n", "g">>,
      <<"o", "u", "t", "l", "o", "o", "k">>>>

(* the words numbered in S, from word i on, separated by one space *)
RECURSIVE joinWords(_, _)
joinWords(i, S) ==
    IF i > MaxQueryWords THEN <<>>
    ELSE IF i \notin S THEN joinWords(i + 1, S)
    ELSE QueryWords[i] \o (IF \E j \in S : j > i THEN <<" ">> ELSE <<>>)
         \o joinWords(i + 1, S)

(* the queries: the words of a selection, as typed or followed by a space *)
Queries ==
    {joinWords(1, S) : S \in SUBSET (1 .. MaxQueryWords)} \cup
    {joinWords(1, S) \o <<" ">> : S \in SUBSET (1 .. MaxQueryWords)}

(* the options: none, or a limit *)
SearchOptions == {<<>>} \cup {[limit |-> n] : n \in 0 .. MaxLimit}

Search ==
    /\ result.op = "new"
    /\ \E query \in Queries, options \in SearchOptions :
          result' = [op |-> "search",
                     args |-> [query |-> query, options |-> options],
                     ret |-> search(Articles, query, options)]
    /\ UNCHANGED <<state, currentArticle, clock, continuedIds, run, wasDirty>>
    /\ UNCHANGED <<loader, chat, pending>>

(* the result lists isLowConfidence is called with: none, or up to         *)
(* MaxResults results with scores up to MaxScore                           *)
ScoredResults ==
    {NullResults} \cup
    UNION {[1 .. n -> {[article |-> id, score |-> sc] :
                          id \in {ArticleEmail.id}, sc \in 1 .. MaxScore}] :
           n \in 0 .. MaxResults}

IsLowConfidence ==
    /\ result.op = "new"
    /\ \E results \in ScoredResults :
          result' = [op |-> "isLowConfidence",
                     args |-> [results |-> results],
                     ret |-> isLowConfidence(results)]
    /\ UNCHANGED <<state, currentArticle, clock, continuedIds, run, wasDirty>>
    /\ UNCHANGED <<loader, chat, pending>>

NextRetrieval ==
    \/ Search
    \/ IsLowConfidence

SpecRetrieval == Init /\ [][NextRetrieval]_vars

(***************************************************************************)
(* The KB loader.  Its functions are async: a call runs up to an await,    *)
(* and goes on when the awaited promise settles, while other calls run in  *)
(* between.  A call of pending stands at the await it waits on: the        *)
(* storage read of initKBLoader, the storage write of setKBSourceUrl, and  *)
(* ensureInitialized (388), cacheKB (406) and loadCachedKB (420) in        *)
(* loadKB, and inside its fetchRemoteKB (403) fetch (318) and              *)
(* response.json() (323).  A step is the settling of that promise          *)
(* followed by the code up to the next await or to the end of the call; a  *)
(* storage call takes effect when it settles, and what waits on a promise  *)
(* that is settled goes on before any other answer is handled.             *)
(* pending[1] is the initKBLoader() call of the module load, whose promise *)
(* is initPromise; it stays there when it has ended.  Every other call     *)
(* leaves pending when it ends, and at most MaxCalls of them are in flight *)
(* at a time.  The storage is what an earlier run of the extension left.   *)
(* Date.now() reads the clock, which stands still here.                    *)
(* A call of loadKB also keeps what is said about it afterwards: whether   *)
(* the call right before it was a setKBSourceUrl that saved the URL in use *)
(* (afterSave), how its fetch ended (fetched), and the KB that another     *)
(* call fetched and put in cachedKB while it was in flight (remoteSince).  *)
(***************************************************************************)
(* what the storage can hold at start: a saved URL or none, and a fetched  *)
(* KB with its timestamp or none                                           *)
StoredStates ==
    {[kb_source_url |-> url, cached_kb |-> NullKB,
      cached_kb_timestamp |-> NoTimestamp] : url \in Urls} \cup
    {[kb_source_url |-> url, cached_kb |-> kb,
      cached_kb_timestamp |-> 0] : url \in Urls, kb \in RemoteKBs}

(* a call at its first await; url is the argument of setKBSourceUrl, and   *)
(* in loadKB the kbSourceUrl read after ensureInitialized                  *)
NewCall(pc, forceRefresh, url) ==
    [pc |-> pc, forceRefresh |-> forceRefresh, url |-> url,
     kb |-> NullKB, source |-> "none", fetched |-> "none",
     afterSave |-> FALSE, remoteSince |-> NullKB]

(* the call c has ended: the call of the module load stays as initPromise, *)
(* resolved, any other leaves pending                                      *)
ended(calls, c) ==
    IF c = 1 THEN [calls EXCEPT ![1].pc = "returned"]
    ELSE SubSeq(calls, 1, c - 1) \o SubSeq(calls, c + 1, Len(calls))

(* the call c goes on as next: it stays in pending while it waits, and     *)
(* leaves when it has returned or thrown                                   *)
goesOn(calls, c, next) ==
    IF next.pc \in {"returned", "rejected"} THEN ended(calls, c)
    ELSE [calls EXCEPT ![c] = next]

(* a source URL is configured: a string that is not empty and not blank *)
configured(url) == isString(url) /\ url # <<>> /\ trim(url) # <<>>

(* no call waits on a promise that is settled already.  A call of loadKB   *)
(* made once initPromise is resolved, and the calls that waited for it     *)
(* when it resolves, go on as microtasks, which run before the answer of   *)
(* the storage or of the network to any other call is handled.             *)
microtasksDone ==
    ~(/\ pending[1].pc = "returned"
      /\ \E c \in DOMAIN pending : pending[c].pc = "ensureInitialized")

(* the module has just been loaded: initPromise = initKBLoader() waits for *)
(* the storage                                                             *)
InitLoader ==
    /\ state = reset
    /\ currentArticle = NullId
    /\ result = [op |-> "new"]
    /\ clock = 0
    /\ continuedIds = {}
    /\ run = -1
    /\ wasDirty = FALSE
    /\ \E storage \in StoredStates : loader = ModuleLoaded(storage)
    /\ chat = EmptyChat
    /\ pending = <<NewCall("initKBLoader", FALSE, UrlNone)>>

(* the exported initKBLoader() is called; initPromise stays the promise of *)
(* the module load                                                         *)
CallInitKBLoader ==
    /\ Len(pending) < 1 + MaxCalls
    /\ pending' = Append(pending, NewCall("initKBLoader", FALSE, UrlNone))
    /\ result' = [op |-> "initKBLoader", await |-> TRUE]
    /\ UNCHANGED <<state, currentArticle, clock, continuedIds, run, wasDirty>>
    /\ UNCHANGED <<loader, chat>>

(* after await chrome.storage.local.get in initKBLoader *)
AfterInitKBLoader ==
    /\ microtasksDone
    /\ \E c \in DOMAIN pending, getOk \in BOOLEAN :
        /\ pending[c].pc = "initKBLoader"
        /\ loader' = initKBLoader(loader, getOk)
        /\ pending' = ended(pending, c)
        /\ result' = [op |-> "initKBLoader", await |-> FALSE,
                      args |-> [getOk |-> getOk]]
    /\ UNCHANGED <<state, currentArticle, clock, continuedIds, run, wasDirty>>
    /\ UNCHANGED chat

(* setKBSourceUrl(url) is called: kbSourceUrl = url, and the write of the  *)
(* URL is started; the call does not wait for the initialization           *)
CallSetKBSourceUrl ==
    /\ Len(pending) < 1 + MaxCalls
    /\ \E url \in Urls :
        /\ loader' = [loader EXCEPT !.kbSourceUrl = url]
        /\ pending' = Append(pending, NewCall("setKBSourceUrl", FALSE, url))
        /\ result' = [op |-> "setKBSourceUrl", await |-> TRUE,
                      args |-> [url |-> url]]
    /\ UNCHANGED <<state, currentArticle, clock, continuedIds, run, wasDirty>>
    /\ UNCHANGED chat

(* after await chrome.storage.local.set in setKBSourceUrl: a failed write  *)
(* is logged                                                               *)
AfterSetKBSourceUrl ==
    /\ microtasksDone
    /\ \E c \in DOMAIN pending, setOk \in BOOLEAN :
        /\ pending[c].pc = "setKBSourceUrl"
        /\ loader' = [loader EXCEPT !.storage.kb_source_url =
                                        IF setOk THEN pending[c].url ELSE @]
        /\ pending' = ended(pending, c)
        /\ result' = [op |-> "setKBSourceUrl", await |-> FALSE,
                      args |-> [url |-> pending[c].url, setOk |-> setOk]]
    /\ UNCHANGED <<state, currentArticle, clock, continuedIds, run, wasDirty>>
    /\ UNCHANGED chat

(* the step before was the end of a setKBSourceUrl that saved a configured *)
(* URL, which is still kbSourceUrl                                         *)
urlJustSaved ==
    /\ result.op = "setKBSourceUrl"
    /\ ~result.await
    /\ result.args.setOk
    /\ configured(result.args.url)
    /\ loader.kbSourceUrl = result.args.url

(* loadKB(forceRefresh) is called, by the caller or by findBestMatch and   *)
(* getAllArticles (forceRefresh false), and waits for ensureInitialized    *)
CallLoadKB ==
    /\ Len(pending) < 1 + MaxCalls
    /\ \E forceRefresh \in BOOLEAN :
        /\ pending' = Append(pending,
                             [NewCall("ensureInitialized", forceRefresh, UrlNone)
                                 EXCEPT !.afterSave = urlJustSaved])
        /\ result' = [op |-> "loadKB", at |-> "call",
                      args |-> [forceRefresh |-> forceRefresh]]
    /\ UNCHANGED <<state, currentArticle, clock, continuedIds, run, wasDirty>>
    /\ UNCHANGED <<loader, chat>>

(* refreshKB() is called: cachedKB = null, then loadKB(true) *)
CallRefreshKB ==
    /\ Len(pending) < 1 + MaxCalls
    /\ loader' = [loader EXCEPT !.cachedKB = NullKB]
    /\ pending' = Append(pending,
                         NewCall("ensureInitialized", TRUE, UrlNone))
    /\ result' = [op |-> "refreshKB", at |-> "call"]
    /\ UNCHANGED <<state, currentArticle, clock, continuedIds, run, wasDirty>>
    /\ UNCHANGED chat

(* after await ensureInitialized(), which waits for initPromise: the       *)
(* in-memory cache is returned; or kbSourceUrl is read: when it is truthy  *)
(* and no string, kbSourceUrl.trim is not a function and the TypeError,    *)
(* thrown outside the try, rejects the promise of loadKB; for a configured *)
(* URL fetchRemoteKB is called, which finds the URL not blank and waits    *)
(* for fetch(url); otherwise the storage is asked                          *)
AfterEnsureInitialized ==
    /\ pending[1].pc = "returned"
    /\ \E c \in DOMAIN pending :
        /\ pending[c].pc = "ensureInitialized"
        /\ LET call == pending[c]
               next ==
                  IF ~call.forceRefresh /\ loader.cachedKB # NullKB
                  THEN [call EXCEPT !.pc = "returned", !.kb = loader.cachedKB,
                                    !.source = "memory", !.url = loader.kbSourceUrl]
                  ELSE IF loader.kbSourceUrl # <<>> /\ ~isString(loader.kbSourceUrl)
                  THEN [call EXCEPT !.pc = "rejected", !.url = loader.kbSourceUrl]
                  ELSE IF loader.kbSourceUrl # <<>> /\ trim(loader.kbSourceUrl) # <<>>
                  THEN [call EXCEPT !.pc = "fetch", !.url = loader.kbSourceUrl]
                  ELSE [call EXCEPT !.pc = "loadCachedKB", !.url = loader.kbSourceUrl]
           IN  /\ pending' = goesOn(pending, c, next)
               /\ result' = [op |-> "loadKB", at |-> "ensureInitialized",
                             args |-> [forceRefresh |-> call.forceRefresh],
                             call |-> next]
    /\ UNCHANGED <<state, currentArticle, clock, continuedIds, run, wasDirty>>
    /\ UNCHANGED <<loader, chat>>

(* after await fetch(url) in fetchRemoteKB: with a response that is ok,    *)
(* response.json() is awaited; a rejected fetch and the error thrown for   *)
(* a response that is not ok are caught in loadKB, and the storage is      *)
(* asked                                                                   *)
AfterFetch ==
    /\ microtasksDone
    /\ \E c \in DOMAIN pending, answer \in FetchAnswers :
        /\ pending[c].pc = "fetch"
        /\ LET call == pending[c]
               next == IF answer = "ok"
                       THEN [call EXCEPT !.pc = "responseJson"]
                       ELSE [call EXCEPT !.pc = "loadCachedKB", !.fetched = "failed"]
           IN  /\ pending' = goesOn(pending, c, next)
               /\ result' = [op |-> "loadKB", at |-> "fetch",
                             args |-> [forceRefresh |-> call.forceRefresh,
                                       answer |-> answer],
                             call |-> next]
    /\ UNCHANGED <<state, currentArticle, clock, continuedIds, run, wasDirty>>
    /\ UNCHANGED <<loader, chat>>

(* after await response.json() in fetchRemoteKB: an array is returned to   *)
(* loadKB, which starts cacheKB(kb); a rejected response.json() and the    *)
(* error thrown for a value that is no array are caught in loadKB, and the *)
(* storage is asked                                                        *)
AfterResponseJson ==
    /\ microtasksDone
    /\ \E c \in DOMAIN pending, body \in JsonAnswers :
        /\ pending[c].pc = "responseJson"
        /\ LET call == pending[c]
               next == IF body.kind = "array"
                       THEN [call EXCEPT !.pc = "cacheKB", !.fetched = "array",
                                         !.kb = body.data]
                       ELSE [call EXCEPT !.pc = "loadCachedKB", !.fetched = "failed"]
           IN  /\ pending' = goesOn(pending, c, next)
               /\ result' = [op |-> "loadKB", at |-> "responseJson",
                             args |-> [forceRefresh |-> call.forceRefresh,
                                       body |-> body],
                             call |-> next]
    /\ UNCHANGED <<state, currentArticle, clock, continuedIds, run, wasDirty>>
    /\ UNCHANGED <<loader, chat>>

(* after await cacheKB(kb): cachedKB = kb, and the remote KB is returned;  *)
(* the calls still in flight now have a fetched KB stored since they began *)
AfterCacheKB ==
    /\ microtasksDone
    /\ \E c \in DOMAIN pending, setOk \in BOOLEAN :
        /\ pending[c].pc = "cacheKB"
        /\ LET call == pending[c]
               next == [call EXCEPT !.pc = "returned", !.source = "remote"]
               others == [d \in DOMAIN pending |->
                             IF d # c /\ pending[d].pc \in
                                  {"ensureInitialized", "fetch", "responseJson",
                                   "cacheKB", "loadCachedKB"}
                             THEN [pending[d] EXCEPT !.remoteSince = call.kb]
                             ELSE pending[d]]
           IN  /\ loader' = [loader EXCEPT
                                !.storage = cacheKB(@, call.kb, clock, setOk),
                                !.cachedKB = call.kb]
               /\ pending' = goesOn(others, c, next)
               /\ result' = [op |-> "loadKB", at |-> "cacheKB",
                             args |-> [forceRefresh |-> call.forceRefresh,
                                       setOk |-> setOk],
                             call |-> next]
    /\ UNCHANGED <<state, currentArticle, clock, continuedIds, run, wasDirty>>
    /\ UNCHANGED chat

(* after await loadCachedKB(): cachedKB is set to the stored KB when it    *)
(* has articles, to the mock KB otherwise, and that KB is returned         *)
AfterLoadCachedKB ==
    /\ microtasksDone
    /\ \E c \in DOMAIN pending, getOk \in BOOLEAN :
        /\ pending[c].pc = "loadCachedKB"
        /\ LET call == pending[c]
               cached == loadCachedKB(loader.storage, getOk)
               fromCache == cached # NullCached /\ Len(cached.kb) > 0
               kb == IF fromCache THEN cached.kb ELSE MockKB
               next == [call EXCEPT !.pc = "returned", !.kb = kb,
                                    !.source = IF fromCache THEN "cache" ELSE "mock"]
           IN  /\ loader' = [loader EXCEPT !.cachedKB = kb]
               /\ pending' = goesOn(pending, c, next)
               /\ result' = [op |-> "loadKB", at |-> "loadCachedKB",
                             args |-> [forceRefresh |-> call.forceRefresh,
                                       getOk |-> getOk],
                             call |-> next]
    /\ UNCHANGED <<state, currentArticle, clock, continuedIds, run, wasDirty>>
    /\ UNCHANGED chat

NextLoader ==
    \/ CallInitKBLoader
    \/ AfterInitKBLoader
    \/ CallSetKBSourceUrl
    \/ AfterSetKBSourceUrl
    \/ CallLoadKB
    \/ CallRefreshKB
    \/ AfterEnsureInitialized
    \/ AfterFetch
    \/ AfterResponseJson
    \/ AfterCacheKB
    \/ AfterLoadCachedKB

SpecLoader == InitLoader /\ [][NextLoader]_vars

(***************************************************************************)
(* The chat flow of the side panel.  The chat holds the input field (its   *)
(* value and whether it is disabled) and the messages, oldest first, each  *)
(* by its kind: the welcome, a query of the user, the typing indicator, a  *)
(* reply.  handleUserInput is async: a call runs up to the typing delay,   *)
(* setTimeout of 800 ms, and goes on when its timer fires; the timers fire *)
(* in the order they were set, and retrieval.search, an async function     *)
(* that awaits nothing, settles before any other event is handled.  A call *)
(* of pending waits for its timer with the query it read.  Typing, the     *)
(* send button, the Enter key and the reset button are handled in between. *)
(* The retrieval provider of the side panel is built over mockArticles.    *)
(***************************************************************************)
(* kb.mock.js: the fields of the articles that search and the Step Runner *)
(* read; of a step its id and its text                                  *)
mockArticles ==
    <<[id |-> 1,
      title |-> <<"E", "m", "a", "i", "l", " ", "N", "o", "t", " ", "S",
                  "e", "n", "d", "i", "n", "g", " ", "-", " ", "G", "m",
                  "a", "i", "l">>,
      tags |-> <<<<"e", "m", "a", "i", "l">>,
                <<"g", "m", "a", "i", "l">>,
                <<"d", "e", "l", "i", "v", "e", "r", "y">>>>,
      product |-> <<"G", "m", "a", "i", "l">>,
      keywords |-> <<<<"e", "m", "a", "i", "l">>,
                    <<"g", "m", "a", "i", "l">>,
                    <<"n", "o", "t", " ", "s", "e", "n", "d", "i", "n", "g">>,
                    <<"d", "e", "l", "i", "v", "e", "r", "y">>>>,
      steps |-> <<Step("step1",
                      <<"C", "h", "e", "c", "k", " ", "t", "h", "e", " ",
                        "o", "u", "t", "b", "o", "x", " ", "f", "o", "r",
                        " ", "s", "t", "u", "c", "k", " ", "e", "m", "a",
                        "i", "l", "s">>),
                 Step("step2",
                      <<"V", "e", "r", "i", "f", "y", " ", "S", "M", "T",
                        "P", " ", "S", "e", "r", "v", "e", "r", " ", "a",
                        "n", "d", " ", "P", "o", "r", "t", " ", "N", "u",
                        "m", "b", "e", "r", " ", "m", "a", "t", "c", "h",
                        " ", "r", "e", "q", "u", "i", "r", "e", "m", "e",
                        "n", "t", "s">>),
                 Step("step3",
                      <<"C", "h", "e", "c", "k", " ", "A", "p", "p", " ",
                        "P", "a", "s", "s", "w", "o", "r", "d", " ", "i",
                        "s", " ", "c", "o", "r", "r", "e", "c", "t", "l",
                        "y", " ", "c", "o", "n", "f", "i", "g", "u", "r",
                        "e", "d", " ", "(", "i", "f", " ", "u", "s", "i",
                        "n", "g", " ", "2", "F", "A", ")">>),
                 Step("step4",
                      <<"V", "e", "r", "i", "f", "y", " ", "C", "u", "s",
                        "t", "o", "m", "e", "r", " ", "I", "D", " ", "a",
                        "n", "d", " ", "A", "c", "c", "o", "u", "n", "t",
                        " ", "T", "y", "p", "e", " ", "a", "r", "e", " ",
                        "a", "c", "t", "i", "v", "e">>),
                 Step("step5",
                      <<"T", "e", "s", "t", " ", "s", "e", "n", "d", "i",
                        "n", "g", " ", "a", " ", "s", "i", "m", "p", "l",
                        "e", " ", "e", "m", "a", "i", "l", " ", "u", "s",
                        "i", "n", "g", " ", "T", "e", "r", "m", "i", "n",
                        "a", "l", " ", "I", "D", " ", "f", "o", "r", " ",
                        "t", "r", "a", "c", "k", "i", "n", "g">>),
                 Step("step6",
                      <<"C", "h", "e", "c", "k", " ", "G", "o", "o", "g",
                        "l", "e", " ", "A", "c", "c", "o", "u", "n", "t",
                        " ", "s", "e", "c", "u", "r", "i", "t", "y", " ",
                        "s", "e", "t", "t", "i", "n", "g", "s", " ", "f",
                        "o", "r", " ", "b", "l", "o", "c", "k", "e", "d",
                        " ", "s", "i", "g", "n", "-", "i", "n", "s">>)>>,
      fallbacks |-> <<Fallback("fallback1", "system-error",
                         <<<<"s", "m", "t", "p">>,
                           <<"s", "e", "t", "t", "i", "n", "g", "s">>,
                           <<"c", "o", "n", "f", "i", "g", "u", "r", "a",
                             "t", "i", "o", "n">>,
                           <<"e", "r", "r", "o", "r">>>>,
                         <<Step("fb1-step1",
                                <<"R", "e", "s", "e", "t", " ", "S", "M",
                                  "T", "P", " ", "S", "e", "r", "v", "e",
                                  "r", " ", "c", "o", "n", "f", "i", "g",
                                  "u", "r", "a", "t", "i", "o", "n", " ",
                                  "t", "o", " ", "d", "e", "f", "a", "u",
                                  "l", "t", " ", "(", "s", "m", "t", "p",
                                  ".", "g", "m", "a", "i", "l", ".", "c",
                                  "o", "m", ")", " ", "a", "n", "d", " ",
                                  "v", "e", "r", "i", "f", "y", " ", "P",
                                  "o", "r", "t", " ", "N", "u", "m", "b",
                                  "e", "r", " ", "i", "s", " ", "5", "8",
                                  "7">>),
                           Step("fb1-step2",
                                <<"R", "e", "s", "t", "a", "r", "t", " ",
                                  "e", "m", "a", "i", "l", " ", "c", "l",
                                  "i", "e", "n", "t", " ", "a", "n", "d",
                                  " ", "v", "e", "r", "i", "f", "y", " ",
                                  "T", "e", "r", "m", "i", "n", "a", "l",
                                  " ", "I", "D", " ", "i", "s", " ", "l",
                                  "o", "g", "g", "e", "d">>)>>)>>,
      escalation |-> [when |-> "All steps completed without resolution",
                     target |-> "Gmail Tier 2 Support"]],
     [id |-> 2,
      title |-> <<"E", "m", "a", "i", "l", " ", "N", "o", "t", " ", "S",
                  "e", "n", "d", "i", "n", "g", " ", "-", " ", "O", "u",
                  "t", "l", "o", "o", "k">>,
      tags |-> <<<<"e", "m", "a", "i", "l">>,
                <<"o", "u", "t", "l", "o", "o", "k">>,
                <<"d", "e", "l", "i", "v", "e", "r", "y">>>>,
      product |-> <<"O", "u", "t", "l", "o", "o", "k">>,
      keywords |-> <<<<"e", "m", "a", "i", "l">>,
                    <<"o", "u", "t", "l", "o", "o", "k">>,
                    <<"n", "o", "t", " ", "s", "e", "n", "d", "i", "n", "g">>>>,
      steps |-> <<Step("step1",
                      <<"C", "h", "e", "c", "k", " ", "t", "h", "e", " ",
                        "o", "u", "t", "b", "o", "x", " ", "f", "o", "r",
                        " ", "s", "t", "u", "c", "k", " ", "e", "m", "a",
                        "i", "l", "s">>),
                 Step("step2",
                      <<"V", "e", "r", "i", "f", "y", " ", "a", "c", "c",
                        "o", "u", "n", "t", " ", "i", "s", " ", "o", "n",
                        "l", "i", "n", "e", " ", "(", "n", "o", "t", " ",
                        "i", "n", " ", "o", "f", "f", "l", "i", "n", "e",
                        " ", "m", "o", "d", "e", ")">>),
                 Step("step3",
                      <<"C", "h", "e", "c", "k", " ", "m", "a", "i", "l",
                        "b", "o", "x", " ", "s", "i", "z", "e", " ", "i",
                        "s", " ", "n", "o", "t", " ", "a", "t", " ", "q",
                        "u", "o", "t", "a">>),
                 Step("step4",
                      <<"T", "e", "s", "t", " ", "w", "i", "t", "h", " ",
                        "a", " ", "s", "m", "a", "l", "l", " ", "t", "e",
                        "s", "t", " ", "e", "m", "a", "i", "l">>)>>,
      fallbacks |-> <<Fallback("fallback1", "system-error",
                         <<<<"q", "u", "o", "t", "a">>,
                           <<"m", "a", "i", "l", "b", "o", "x">>,
                           <<"f", "u", "l", "l">>,
                           <<"s", "p", "a", "c", "e">>>>,
                         <<Step("fb1-step1",
                                <<"A", "r", "c", "h", "i", "v", "e", " ",
                                  "o", "l", "d", " ", "e", "m", "a", "i",
                                  "l", "s", " ", "t", "o", " ", "f", "r",
                                  "e", "e", " ", "u", "p", " ", "s", "p",
                                  "a", "c", "e">>),
                           Step("fb1-step2",
                                <<"E", "m", "p", "t", "y", " ", "d", "e",
                                  "l", "e", "t", "e", "d", " ", "i", "t",
                                  "e", "m", "s", " ", "f", "o", "l", "d",
                                  "e", "r">>)>>),
                     Fallback("fallback2", "no-change",
                         <<<<"o", "f", "f", "l", "i", "n", "e">>,
                           <<"o", "n", "l", "i", "n", "e">>,
                           <<"c", "o", "n", "n", "e", "c", "t", "i", "o",
                             "n">>,
                           <<"m", "o", "d", "e">>>>,
                         <<Step("fb2-step1",
                                <<"R", "e", "s", "t", "a", "r", "t", " ",
                                  "O", "u", "t", "l", "o", "o", "k", " ",
                                  "i", "n", " ", "s", "a", "f", "e", " ",
                                  "m", "o", "d", "e">>),
                           Step("fb2-step2",
                                <<"R", "e", "c", "r", "e", "a", "t", "e",
                                  " ", "O", "u", "t", "l", "o", "o", "k",
                                  " ", "p", "r", "o", "f", "i", "l", "e">>)>>)>>,
      escalation |-> [when |-> "Quota exceeded and user cannot delete emails",
                     target |-> "IT Admin"]],
     [id |-> 3,
      title |-> <<"N", "e", "t", "w", "o", "r", "k", " ", "C", "o", "n",
                  "n", "e", "c", "t", "i", "o", "n", " ", "L", "o", "s",
                  "t", " ", "-", " ", "W", "i", "n", "d", "o", "w", "s">>,
      tags |-> <<<<"n", "e", "t", "w", "o", "r", "k">>,
                <<"w", "i", "n", "d", "o", "w", "s">>,
                <<"c", "o", "n", "n", "e", "c", "t", "i", "v", "i", "t", "y">>>>,
      product |-> <<"W", "i", "n", "d", "o", "w", "s">>,
      keywords |-> <<<<"n", "e", "t", "w", "o", "r", "k">>,
                    <<"c", "o", "n", "n", "e", "c", "t", "i", "o", "n">>,
                    <<"w", "i", "f", "i">>,
                    <<"e", "t", "h", "e", "r", "n", "e", "t">>>>,
      steps |-> <<Step("step1",
                      <<"C", "h", "e", "c", "k", " ", "a", "i", "r", "p",
                        "l", "a", "n", "e", " ", "m", "o", "d", "e", " ",
                        "i", "s", " ", "O", "F", "F">>),
                 Step("step2",
                      <<"V", "e", "r", "i", "f", "y", " ", "W", "i", "F",
                        "i", " ", "a", "d", "a", "p", "t", "e", "r", " ",
                        "i", "s", " ", "e", "n", "a", "b", "l", "e", "d",
                        " ", "i", "n", " ", "N", "e", "t", "w", "o", "r",
                        "k", " ", "S", "e", "t", "t", "i", "n", "g", "s">>),
                 Step("step3",
                      <<"R", "u", "n", " ", "W", "i", "n", "d", "o", "w",
                        "s", " ", "N", "e", "t", "w", "o", "r", "k", " ",
                        "T", "r", "o", "u", "b", "l", "e", "s", "h", "o",
                        "o", "t", "e", "r">>),
                 Step("step4",
                      <<"R", "e", "s", "t", "a", "r", "t", " ", "n", "e",
                        "t", "w", "o", "r", "k", " ", "a", "d", "a", "p",
                        "t", "e", "r", ":", " ", "O", "p", "e", "n", " ",
                        "D", "e", "v", "i", "c", "e", " ", "M", "a", "n",
                        "a", "g", "e", "r", ",", " ", "f", "i", "n", "d",
                        " ", "a", "d", "a", "p", "t", "e", "r", ",", " ",
                        "r", "i", "g", "h", "t", "-", "c", "l", "i", "c",
                        "k", " ", "a", "n", "d", " ", "r", "e", "s", "t",
                        "a", "r", "t">>),
                 Step("step5",
                      <<"R", "e", "s", "t", "a", "r", "t", " ", "r", "o",
                        "u", "t", "e", "r", " ", "a", "n", "d", " ", "m",
                        "o", "d", "e", "m", " ", "(", "p", "o", "w", "e",
                        "r", " ", "c", "y", "c", "l", "e", " ", "f", "o",
                        "r", " ", "3", "0", " ", "s", "e", "c", "o", "n",
                        "d", "s", ")">>),
                 Step("step6",
                      <<"T", "r", "y", " ", "c", "o", "n", "n", "e", "c",
                        "t", "i", "n", "g", " ", "t", "o", " ", "t", "h",
                        "e", " ", "n", "e", "t", "w", "o", "r", "k", " ",
                        "a", "g", "a", "i", "n">>)>>,
      fallbacks |-> <<Fallback("fallback1", "no-change",
                         <<<<"a", "d", "a", "p", "t", "e", "r">>,
                           <<"d", "r", "i", "v", "e", "r">>,
                           <<"n", "e", "t", "w", "o", "r", "k">>,
                           <<"r", "e", "s", "t", "a", "r", "t">>>>,
                         <<Step("fb1-step1",
                                <<"U", "n", "i", "n", "s", "t", "a", "l",
                                  "l", " ", "a", "n", "d", " ", "r", "e",
                                  "i", "n", "s", "t", "a", "l", "l", " ",
                                  "n", "e", "t", "w", "o", "r", "k", " ",
                                  "a", "d", "a", "p", "t", "e", "r", " ",
                                  "d", "r", "i", "v", "e", "r">>)>>)>>,
      escalation |-> [when |-> "Suspected hardware or ISP issue",
                     target |-> "Network Specialist"]],
     [id |-> 4,
      title |-> <<"N", "e", "t", "w", "o", "r", "k", " ", "C", "o", "n",
                  "n", "e", "c", "t", "i", "o", "n", " ", "L", "o", "s",
                  "t", " ", "-", " ", "M", "a", "c">>,
      tags |-> <<<<"n", "e", "t", "w", "o", "r", "k">>,
                <<"m", "a", "c">>,
                <<"c", "o", "n", "n", "e", "c", "t", "i", "v", "i", "t", "y">>>>,
      product |-> <<"M", "a", "c", "O", "S">>,
      keywords |-> <<<<"n", "e", "t", "w", "o", "r", "k">>,
                    <<"c", "o", "n", "n", "e", "c", "t", "i", "o", "n">>,
                    <<"w", "i", "f", "i">>,
                    <<"m", "a", "c">>>>,
      steps |-> <<Step("step1",
                      <<"C", "h", "e", "c", "k", " ", "a", "i", "r", "p",
                        "l", "a", "n", "e", " ", "m", "o", "d", "e", " ",
                        "i", "s", " ", "O", "F", "F", " ", "i", "n", " ",
                        "C", "o", "n", "t", "r", "o", "l", " ", "C", "e",
                        "n", "t", "e", "r">>),
                 Step("step2",
                      <<"V", "e", "r", "i", "f", "y", " ", "W", "i", "F",
                        "i", " ", "i", "s", " ", "e", "n", "a", "b", "l",
                        "e", "d", ":", " ", "C", "l", "i", "c", "k", " ",
                        "W", "i", "F", "i", " ", "i", "c", "o", "n", " ",
                        "i", "n", " ", "m", "e", "n", "u", " ", "b", "a",
                        "r">>),
                 Step("step3",
                      <<"F", "o", "r", "g", "e", "t", " ", "t", "h", "e",
                        " ", "n", "e", "t", "w", "o", "r", "k", " ", "a",
                        "n", "d", " ", "r", "e", "c", "o", "n", "n", "e",
                        "c", "t", ":", " ", "S", "y", "s", "t", "e", "m",
                        " ", "P", "r", "e", "f", "e", "r", "e", "n", "c",
                        "e", "s", " ", ">", " ", "N", "e", "t", "w", "o",
                        "r", "k", " ", ">", " ", "W", "i", "F", "i", " ",
                        ">", " ", "A", "d", "v", "a", "n", "c", "e", "d">>),
                 Step("step4",
                      <<"R", "e", "s", "t", "a", "r", "t", " ", "n", "e",
                        "t", "w", "o", "r", "k", " ", "p", "r", "e", "f",
                        "e", "r", "e", "n", "c", "e", "s", ":", " ", "D",
                        "e", "l", "e", "t", "e", " ", "/", "L", "i", "b",
                        "r", "a", "r", "y", "/", "P", "r", "e", "f", "e",
                        "r", "e", "n", "c", "e", "s", "/", "S", "y", "s",
                        "t", "e", "m", "C", "o", "n", "f", "i", "g", "u",
                        "r", "a", "t", "i", "o", "n", "/", "N", "e", "t",
                        "w", "o", "r", "k", "I", "n", "t", "e", "r", "f",
                        "a", "c", "e", "s", ".", "p", "l", "i", "s", "t">>),
                 Step("step5",
                      <<"R", "e", "s", "t", "a", "r", "t", " ", "t", "h",
                        "e", " ", "M", "a", "c">>),
                 Step("step6",
                      <<"T", "r", "y", " ", "c", "o", "n", "n", "e", "c",
                        "t", "i", "n", "g", " ", "t", "o", " ", "t", "h",
                        "e", " ", "n", "e", "t", "w", "o", "r", "k", " ",
                        "a", "g", "a", "i", "n">>)>>,
      fallbacks |-> <<Fallback("fallback1", "no-change",
                         <<<<"w", "i", "f", "i">>,
                           <<"p", "r", "e", "f", "e", "r", "e", "n", "c",
                             "e", "s">>,
                           <<"n", "e", "t", "w", "o", "r", "k">>,
                           <<"s", "e", "t", "t", "i", "n", "g", "s">>>>,
                         <<Step("fb1-step1",
                                <<"R", "e", "s", "e", "t", " ", "S", "M",
                                  "C", " ", "(", "S", "y", "s", "t", "e",
                                  "m", " ", "M", "a", "n", "a", "g", "e",
                                  "m", "e", "n", "t", " ", "C", "o", "n",
                                  "t", "r", "o", "l", "l", "e", "r", ")">>),
                           Step("fb1-step2",
                                <<"R", "e", "s", "e", "t", " ", "N", "V",
                                  "R", "A", "M", "/", "P", "R", "A", "M">>)>>),
                     Fallback("fallback2", "permission-issue",
                         <<<<"p", "e", "r", "m", "i", "s", "s", "i", "o",
                             "n">>,
                           <<"a", "c", "c", "e", "s", "s">>,
                           <<"a", "d", "m", "i", "n">>,
                           <<"p", "a", "s", "s", "w", "o", "r", "d">>>>,
                         <<Step("fb2-step1",
                                <<"V", "e", "r", "i", "f", "y", " ", "a",
                                  "d", "m", "i", "n", " ", "a", "c", "c",
                                  "o", "u", "n", "t", " ", "c", "r", "e",
                                  "d", "e", "n", "t", "i", "a", "l", "s">>),
                           Step("fb2-step2",
                                <<"B", "o", "o", "t", " ", "i", "n", "t",
                                  "o", " ", "r", "e", "c", "o", "v", "e",
                                  "r", "y", " ", "m", "o", "d", "e", " ",
                                  "a", "n", "d", " ", "r", "e", "s", "e",
                                  "t", " ", "p", "e", "r", "m", "i", "s",
                                  "s", "i", "o", "n", "s">>)>>)>>,
      escalation |-> [when |-> "Network preferences reset doesn't help",
                     target |-> "Apple Support"]],
     [id |-> 5,
      title |-> <<"S", "o", "f", "t", "w", "a", "r", "e", " ", "I", "n",
                  "s", "t", "a", "l", "l", "a", "t", "i", "o", "n", " ",
                  "F", "a", "i", "l", "s">>,
      tags |-> <<<<"i", "n", "s", "t", "a", "l", "l", "a", "t", "i", "o", "n">>,
                <<"s", "o", "f", "t", "w", "a", "r", "e">>,
                <<"e", "r", "r", "o", "r">>>>,
      product |-> <<"G", "e", "n", "e", "r", "a", "l">>,
      keywords |-> <<<<"i", "n", "s", "t", "a", "l", "l">>,
                    <<"i", "n", "s", "t", "a", "l", "l", "a", "t", "i", "o",
                      "n">>,
                    <<"f", "a", "i", "l", "s">>,
                    <<"e", "r", "r", "o", "r">>>>,
      steps |-> <<Step("step1",
                      <<"C", "h", "e", "c", "k", " ", "a", "v", "a", "i",
                        "l", "a", "b", "l", "e", " ", "d", "i", "s", "k",
                        " ", "s", "p", "a", "c", "e">>),
                 Step("step2",
                      <<"V", "e", "r", "i", "f", "y", " ", "a", "n", "t",
                        "i", "v", "i", "r", "u", "s", " ", "i", "s", " ",
                        "n", "o", "t", " ", "b", "l", "o", "c", "k", "i",
                        "n", "g", " ", "i", "n", "s", "t", "a", "l", "l",
                        "a", "t", "i", "o", "n">>),
                 Step("step3",
                      <<"R", "u", "n", " ", "i", "n", "s", "t", "a", "l",
                        "l", "e", "r", " ", "a", "s", " ", "A", "d", "m",
                        "i", "n", "i", "s", "t", "r", "a", "t", "o", "r",
                        " ", "(", "r", "i", "g", "h", "t", "-", "c", "l",
                        "i", "c", "k", " ", ">", " ", "R", "u", "n", " ",
                        "a", "s", " ", "A", "d", "m", "i", "n", "i", "s",
                        "t", "r", "a", "t", "o", "r", ")">>),
                 Step("step4",
                      <<"C", "h", "e", "c", "k", " ", "W", "i", "n", "d",
                        "o", "w", "s", " ", "U", "p", "d", "a", "t", "e",
                        " ", "i", "s", " ", "n", "o", "t", " ", "i", "n",
                        " ", "p", "r", "o", "g", "r", "e", "s", "s">>),
                 Step("step5",
                      <<"R", "e", "t", "r", "y", " ", "i", "n", "s", "t",
                        "a", "l", "l", "a", "t", "i", "o", "n", " ", "w",
                        "i", "t", "h", " ", "d", "e", "t", "a", "i", "l",
                        "e", "d", " ", "l", "o", "g", "g", "i", "n", "g",
                        " ", "e", "n", "a", "b", "l", "e", "d">>)>>,
      fallbacks |-> <<>>,
      escalation |-> [when |-> "Persistent installation failure after all steps",
                     target |-> "Software Vendor Support"]]>>

(* what the user types in the input field *)
ChatInputs ==
    {<<>>, <<" ">>, QueryWords[5], QueryWords[8], QueryWords[2],
     <<" ">> \o QueryWords[6] \o <<" ">>}

(* removeTypingIndicator: getElementById gives the first message with the  *)
(* id of the typing indicator, which is removed                            *)
removeTypingIndicator(messages) ==
    IF \E i \in DOMAIN messages : messages[i] = "typing"
    THEN LET first == CHOOSE i \in DOMAIN messages :
                         /\ messages[i] = "typing"
                         /\ \A j \in 1 .. (i - 1) : messages[j] # "typing"
         IN  SubSeq(messages, 1, first - 1) \o
             SubSeq(messages, first + 1, Len(messages))
    ELSE messages

(* handleUserInput up to the typing delay: a query that is empty once      *)
(* trimmed returns; else the query is shown, the input cleared and         *)
(* disabled, the typing indicator shown and the timer set                  *)
handleUserInput(ch, calls) ==
    LET query == trim(ch.value)
    IN  IF query = <<>>
        THEN [chat |-> ch, pending |-> calls, submitted |-> FALSE]
        ELSE [chat |-> [value |-> <<>>, disabled |-> TRUE,
                        messages |-> ch.messages \o <<"agent", "typing">>],
              pending |-> Append(calls, [pc |-> "typingDelay", query |-> query]),
              submitted |-> TRUE]

(* selectArticleInChat: currentArticle becomes what retrieval.getArticle   *)
(* gives, null for an id no article has (undefined is no id); the Step     *)
(* Runner is started when there is an article, and its first step shown    *)
selectArticleInChat(st, ch, articleId, now) ==
    IF \E i \in DOMAIN mockArticles : mockArticles[i].id = articleId
    THEN LET article == mockArticles[CHOOSE i \in DOMAIN mockArticles :
                                        mockArticles[i].id = articleId]
         IN  [state |-> startArticle(st, articleId, article, now).state,
              currentArticle |-> articleId,
              chat |-> [ch EXCEPT !.messages = Append(@, "step")]]
    ELSE [state |-> st, currentArticle |-> NullId, chat |-> ch]

(* handleUserInput from the typing delay on.  search gives a list of       *)
(* RetrievalResults {article, score, matchInfo}, and the handler reads     *)
(* title, steps, id and tags on the result itself: a property the result   *)
(* does not have is undefined, and reading .length or .slice of undefined  *)
(* throws a TypeError, which ends the handler there: with one result at    *)
(* article.steps.length, before the message is added, with several at      *)
(* article.tags.slice in createArticleCard, before the cards are added.    *)
afterTypingDelay(st, held, ch, query, now) ==
    LET articles == search(mockArticles, query, <<>>)
        shown == [ch EXCEPT !.messages = removeTypingIndicator(@)]
        thrown == [state |-> st, currentArticle |-> held, chat |-> shown,
                   articles |-> articles, outcome |-> "TypeError"]
    IN  IF Len(articles) = 0
        THEN [state |-> st, currentArticle |-> held,
              chat |-> [shown EXCEPT !.messages = Append(@, "no-match"),
                                     !.disabled = FALSE],
              articles |-> articles, outcome |-> "no-match"]
        ELSE IF Len(articles) = 1
        THEN IF "steps" \notin DOMAIN articles[1] THEN thrown
             ELSE LET found == [shown EXCEPT !.messages = Append(@, "found")]
                      s == selectArticleInChat(st, found,
                              IF "id" \in DOMAIN articles[1]
                              THEN articles[1].id ELSE NullId, now)
                  IN  [state |-> s.state, currentArticle |-> s.currentArticle,
                       chat |-> s.chat, articles |-> articles,
                       outcome |-> "single"]
        ELSE IF "tags" \notin DOMAIN articles[1] THEN thrown
             ELSE [state |-> st, currentArticle |-> held,
                   chat |-> [shown EXCEPT !.messages = Append(@, "cards"),
                                          !.disabled = TRUE],
                   articles |-> articles, outcome |-> "cards"]

(* the user types in the input field, which an enabled field allows *)
TypeInput ==
    /\ ~chat.disabled
    /\ \E text \in ChatInputs :
        /\ chat' = [chat EXCEPT !.value = text]
        /\ result' = [op |-> "input", args |-> [text |-> text]]
    /\ UNCHANGED <<state, currentArticle, clock, continuedIds, run, wasDirty>>
    /\ UNCHANGED <<loader, pending>>

(* a click on the send button calls handleUserInput, whether the input is  *)
(* disabled or not; at most MaxSubmits calls wait for their timer, and the *)
(* chat holds at most MaxMessages messages                                 *)
ClickSend ==
    /\ Len(pending) < MaxSubmits
    /\ Len(chat.messages) + 2 <= MaxMessages
    /\ \E h \in {handleUserInput(chat, pending)} :
        /\ chat' = h.chat
        /\ pending' = h.pending
        /\ result' = [op |-> "handleUserInput", at |-> "call",
                      by |-> "click", args |-> [value |-> chat.value],
                      submitted |-> h.submitted]
    /\ UNCHANGED <<state, currentArticle, clock, continuedIds, run, wasDirty>>
    /\ UNCHANGED loader

(* the Enter key in the input calls handleUserInput when the input is not  *)
(* disabled                                                                *)
KeypressEnter ==
    /\ ~chat.disabled
    /\ Len(pending) < MaxSubmits
    /\ Len(chat.messages) + 2 <= MaxMessages
    /\ \E h \in {handleUserInput(chat, pending)} :
        /\ chat' = h.chat
        /\ pending' = h.pending
        /\ result' = [op |-> "handleUserInput", at |-> "call",
                      by |-> "Enter", args |-> [value |-> chat.value],
                      submitted |-> h.submitted]
    /\ UNCHANGED <<state, currentArticle, clock, continuedIds, run, wasDirty>>
    /\ UNCHANGED loader

(* the timer of the oldest waiting call fires, and the call runs to its    *)
(* end                                                                     *)
AfterTypingDelay ==
    /\ pending # <<>>
    /\ \E now \in Instants :
       \E h \in {afterTypingDelay(state, currentArticle, chat,
                                  Head(pending).query, now)} :
        /\ state' = h.state
        /\ currentArticle' = h.currentArticle
        /\ chat' = h.chat
        /\ result' = [op |-> "handleUserInput", at |-> "typingDelay",
                      args |-> [query |-> Head(pending).query],
                      articles |-> [i \in DOMAIN h.articles |->
                                       [article |-> h.articles[i].article.id,
                                        score |-> h.articles[i].score]],
                      outcome |-> h.outcome]
        /\ clock' = IF h.outcome = "single" THEN now ELSE clock
    /\ pending' = Tail(pending)
    /\ UNCHANGED <<continuedIds, run, wasDirty>>
    /\ UNCHANGED loader

(* a click on the reset button: when the user confirms, the Step Runner is *)
(* reset, currentArticle is null, the chat is cleared to the welcome and   *)
(* the input is enabled and emptied; the timers that run are left running  *)
HandleReset ==
    /\ \E confirmed \in BOOLEAN :
        /\ state' = IF confirmed THEN reset ELSE state
        /\ currentArticle' = IF confirmed THEN NullId ELSE currentArticle
        /\ chat' = IF confirmed THEN EmptyChat ELSE chat
        /\ result' = [op |-> "handleReset", args |-> [confirmed |-> confirmed]]
    /\ UNCHANGED <<clock, continuedIds, run, wasDirty>>
    /\ UNCHANGED <<loader, pending>>

NextPanel ==
    \/ TypeInput
    \/ ClickSend
    \/ KeypressEnter
    \/ AfterTypingDelay
    \/ HandleReset

SpecPanel == Init /\ [][NextPanel]_vars

(***************************************************************************)
(* Properties of the Step Runner.                                          *)
(***************************************************************************)
(* the article the caller passes to the calls *)
passedArticle == getArticle(currentArticle)

(* C1: currentStepIndex lies between 0 and the number of steps of the      *)
(* active path, and equals that number exactly when the run is complete.   *)
C1_IndexWithinBounds ==
    LET total == getTotalSteps(state, passedArticle)
    IN  /\ state.currentStepIndex >= 0
        /\ state.currentStepIndex <= total
        /\ (state.currentStepIndex = total) <=> isComplete(state, passedArticle)

(* a fallback of another article, run to its end *)
C1_Witness ==
    /\ state.activePath # "main"
    /\ currentArticle # state.selectedArticleId
    /\ getTotalSteps(state, passedArticle) > 0
    /\ state.currentStepIndex = getTotalSteps(state, passedArticle)

(* C2: every id in completedStepIds is the id of a step that was the       *)
(* current step when continue was called; a step that was only shown,      *)
(* gone back over, skipped or reported as failed is not in it.             *)
C2_CompletionLedger ==
    \A id \in Range(state.completedStepIds) : id \in continuedIds

(* a path with a skipped first step and a reported failure, where the      *)
(* skipped step is not in the ledger although other steps are              *)
C2_Witness ==
    /\ state.skippedStepsCount > 0
    /\ state.failureHistory # <<>>
    /\ state.completedStepIds # <<>>
    /\ getStepsForActivePath(state, passedArticle)[1].id
           \notin Range(state.completedStepIds)
    /\ state.currentStepIndex > state.skippedStepsCount

(* C3: no call other than reset and startArticle shrinks completedStepIds; *)
(* back, recordFailure and switchToFallback leave it unchanged.            *)
C3_NeverShrinks ==
    [][(result'.op \notin {"reset", "startArticle"}) =>
          /\ Range(state.completedStepIds) \subseteq Range(state'.completedStepIds)
          /\ (result'.op \in {"back", "recordFailure", "switchToFallback"} =>
                 state'.completedStepIds = state.completedStepIds)]_vars

(* a switch to a fallback of another article with steps completed before *)
C3_Witness ==
    /\ result.op = "switchToFallback"
    /\ currentArticle # state.selectedArticleId
    /\ Len(state.completedStepIds) >= 2

(* the ids of a path are distinct *)
distinctIds(steps) ==
    \A i, j \in DOMAIN steps : steps[i].id = steps[j].id => i = j

(* C4: startArticle followed by exactly N continue calls on a main path of *)
(* N steps completes exactly these N ids in step order and is complete;    *)
(* the N-th call and no earlier one returns completed with no next step,   *)
(* each earlier call moves the index by one and returns the step there.    *)
C4_ContinueNTimes ==
    LET steps == passedArticle.steps
        N == Len(steps)
    IN  (run >= 0 /\ run <= N /\ distinctIds(steps)) =>
            /\ state.currentStepIndex = run
            /\ getState(state).completedStepIds = [i \in 1 .. run |-> steps[i].id]
            /\ isComplete(state, passedArticle) <=> (run = N)
            /\ (run >= 1 =>
                   /\ result.op = "continue"
                   /\ result.ret.completed = (run = N)
                   /\ result.ret.nextStep =
                          IF run = N THEN NullStep ELSE steps[run + 1]
                   /\ result.ret.currentStepIndex = run)

(* the last of three continue calls on a main path of three steps *)
C4_Witness ==
    /\ run = Len(passedArticle.steps)
    /\ run >= 3
    /\ result.op = "continue"

(* C5: continue past the last step returns {completed: true} and back at   *)
(* index 0 returns {success: false}; neither changes the state.            *)
C5_PastBoundsNoOp ==
    [][/\ (/\ result'.op = "continue"
           /\ state.currentStepIndex >= getTotalSteps(state, passedArticle)) =>
              (result'.ret = [completed |-> TRUE] /\ state' = state)
       /\ (result'.op = "back" /\ state.currentStepIndex = 0) =>
              (result'.ret.success = FALSE /\ state' = state)]_vars

(* continue called on a finished path that holds completed steps *)
C5_Witness ==
    /\ result.op = "continue"
    /\ result.ret = [completed |-> TRUE]
    /\ state.completedStepIds # <<>>
    /\ state.currentStepIndex > 0

(* C6: back at an index above 0 lowers the index by one and changes        *)
(* nothing else of the state.                                              *)
C6_BackOnlyDecrements ==
    [][(result'.op = "back" /\ state.currentStepIndex > 0) =>
          /\ state' = [state EXCEPT !.currentStepIndex = @ - 1]
          /\ result'.ret.success = TRUE]_vars

(* back onto a step that is completed and stays so *)
C6_Witness ==
    /\ result.op = "back"
    /\ result.ret.success
    /\ getCurrentStep(state, passedArticle).id \in Range(state.completedStepIds)

(* C7: recordFailure appends exactly one record (stepId, reasonCategory,   *)
(* note, timestamp) to failureHistory and changes nothing else.            *)
C7_RecordFailureAppends ==
    [][result'.op = "recordFailure" =>
          LET failure == result'.ret
          IN  /\ state' = [state EXCEPT !.failureHistory = Append(@, failure)]
              /\ DOMAIN failure = {"stepId", "reasonCategory", "note", "timestamp"}
              /\ failure.stepId = getCurrentStep(state, passedArticle).id
              /\ <<failure.reasonCategory, failure.note>> \in FailureInputs
              /\ failure.timestamp = clock']_vars

(* a third failure recorded after two different earlier ones *)
C7_Witness ==
    /\ result.op = "recordFailure"
    /\ Len(state.failureHistory) = 3
    /\ state.failureHistory[1] # state.failureHistory[2]
    /\ state.failureHistory[3] = result.ret
    /\ state.failureHistory[3] # state.failureHistory[2]
    /\ state.completedStepIds # <<>>

(* the shape of getState() after construction *)
InitialShape ==
    [selectedArticleId |-> NullId,
     activePath |-> "main",
     currentStepIndex |-> 0,
     completedStepIds |-> <<>>,
     attemptedPaths |-> <<>>,
     failureHistory |-> <<>>,
     skippedStepsCount |-> 0]

(* C8: after reset, from any state, getState() has the initial shape; a    *)
(* second reset gives the same.                                            *)
C8_ResetInitialShape ==
    result.op = "reset" => getState(state) = InitialShape

(* reset of a state that held completed steps and failures *)
C8_Witness ==
    /\ result.op = "reset"
    /\ wasDirty

(* C9: startArticle(id, article), from any state, leaves the id selected,  *)
(* path "main", index 0, nothing completed, no failure and one attempted   *)
(* path "main", and returns the step count and the first step of the main  *)
(* path (0 and null when it is empty).                                     *)
C9_StartArticleFresh ==
    result.op = "startArticle" =>
        LET steps == passedArticle.steps
        IN  /\ currentArticle # NullId
            /\ state.selectedArticleId = currentArticle
            /\ state.activePath = "main"
            /\ state.currentStepIndex = 0
            /\ state.completedStepIds = <<>>
            /\ state.failureHistory = <<>>
            /\ state.skippedStepsCount = 0
            /\ Len(state.attemptedPaths) = 1
            /\ state.attemptedPaths[1].path = "main"
            /\ result.ret.totalSteps = Len(steps)
            /\ result.ret.currentStep = IF Len(steps) = 0 THEN NullStep ELSE steps[1]

(* startArticle on a runner that held completed steps and failures *)
C9_Witness ==
    /\ result.op = "startArticle"
    /\ wasDirty
    /\ Len(passedArticle.steps) > 0

(* C10: isComplete is true exactly when currentStepIndex >= the number of  *)
(* steps of the active path; right after startArticle it is true exactly   *)
(* when the main path has no step.                                         *)
C10_IsComplete ==
    /\ isComplete(state, passedArticle) <=>
           (state.currentStepIndex >= getTotalSteps(state, passedArticle))
    /\ result.op = "startArticle" =>
           (isComplete(state, passedArticle) <=> (Len(passedArticle.steps) = 0))

(* an article without steps, complete as soon as it is started *)
C10_Witness ==
    /\ result.op = "startArticle"
    /\ Len(passedArticle.steps) = 0
    /\ isComplete(state, passedArticle)

(* C11: activePath is "main" or the id of a fallback of the article that   *)
(* state.selectedArticleId identifies, and a switch to a fallback leaves   *)
(* selectedArticleId on the article that owns the fallback.                *)
C11_PathOnSelectedArticle ==
    LET selected == getArticle(state.selectedArticleId)
    IN  /\ \/ state.activePath = "main"
           \/ \E f \in DOMAIN selected.fallbacks :
                  selected.fallbacks[f].id = state.activePath
        /\ (result.op = "switchToFallback" =>
               state.selectedArticleId = result.args.article)

(* the skip count as C12 and C13 state it, not as switchToFallback         *)
(* computes it: the number of leading steps whose text is similar to one   *)
(* of the texts, that is the index of the first step that is similar to    *)
(* none, and the number of steps when every step is similar to one (where  *)
(* the loop of switchToFallback leaves 0)                                  *)
statedLeadingSimilar(steps, texts) ==
    LET dup(i) == \E t \in Range(texts) : similar(steps[i].text, t)
    IN  IF \A i \in DOMAIN steps : dup(i) THEN Len(steps)
        ELSE (CHOOSE i \in DOMAIN steps : ~dup(i) /\ \A j \in 1 .. i - 1 : dup(j)) - 1

(* the steps of the fallback the last switchToFallback was called with *)
switchedSteps ==
    findFallbackById(getArticle(result.args.article), result.args.fallbackId).steps

(* C12: switchToFallback sets activePath to the fallback id, appends one   *)
(* attempted-path record, and sets currentStepIndex to the index of the    *)
(* first fallback step that is not skipped: 0 when the first step is not   *)
(* skipped, the length of the fallback when every step is skipped, and     *)
(* then isComplete is true at once.                                        *)
C12_SwitchStartIndex ==
    result.op = "switchToFallback" =>
        LET first == statedLeadingSimilar(switchedSteps, result.args.completedStepTexts)
        IN  /\ state.activePath = result.args.fallbackId
            /\ Len(state.attemptedPaths) >= 2
            /\ state.attemptedPaths[Len(state.attemptedPaths)].path =
                   result.args.fallbackId
            /\ state.currentStepIndex = first
            /\ (first = Len(switchedSteps) => isComplete(state, passedArticle))

(* C13: the skip count of switchToFallback, returned as skippedSteps and   *)
(* kept as skippedStepsCount, is the number of leading fallback steps      *)
(* whose text is similar to some completed text, also when every fallback  *)
(* step is similar to one.                                                 *)
C13_SkipCountIsLeadingSimilar ==
    result.op = "switchToFallback" =>
        LET count == statedLeadingSimilar(switchedSteps, result.args.completedStepTexts)
        IN  /\ result.ret.skippedSteps = count
            /\ state.skippedStepsCount = count

(* the texts of the main steps of the held article that are completed *)
completedMainTexts ==
    {passedArticle.steps[i].text :
        i \in {k \in DOMAIN passedArticle.steps :
                  passedArticle.steps[k].id \in Range(state.completedStepIds)}}

(* C14: after a switch only the leading skipped steps are hidden: the      *)
(* switch never starts beyond the first fallback step that is not skipped, *)
(* and every continue on a fallback path moves to the very next step, so   *)
(* that each step from the start index on becomes the current step, also   *)
(* one that is similar to a completed step.                                *)
C14_OnlyPrefixHidden ==
    [][/\ (result'.op = "switchToFallback" =>
              state'.currentStepIndex <=
                  statedLeadingSimilar(
                      findFallbackById(getArticle(result'.args.article),
                                       result'.args.fallbackId).steps,
                      result'.args.completedStepTexts))
       /\ (/\ result'.op = "continue"
           /\ state.activePath # "main"
           /\ getCurrentStep(state, passedArticle) # NullStep
           => /\ state'.activePath = state.activePath
              /\ state'.currentStepIndex = state.currentStepIndex + 1
              /\ result'.ret.currentStepIndex = state.currentStepIndex + 1
              /\ result'.ret.nextStep =
                     getCurrentStep(state', getArticle(currentArticle')))]_vars

(* a continue on a fallback path has just presented a step that is similar *)
(* to a completed step and follows a step that was not skipped             *)
C14_Witness ==
    LET steps == getStepsForActivePath(state, passedArticle)
        i == state.currentStepIndex
        dup(j) == \E t \in completedMainTexts : similar(steps[j].text, t)
    IN  /\ result.op = "continue"
        /\ state.activePath # "main"
        /\ state.skippedStepsCount > 0
        /\ i < Len(steps)
        /\ dup(i + 1)
        /\ \E j \in state.skippedStepsCount + 1 .. i : ~dup(j)

(* C15 as stated: once the index equals the step count of the active path  *)
(* of a started article, only reset and startArticle take the runner out   *)
(* of Complete.                                                            *)
C15_CompleteIsTerminal ==
    [][(state.selectedArticleId # NullId /\ isComplete(state, passedArticle)) =>
          \/ isComplete(state', getArticle(currentArticle'))
          \/ result'.op \in {"reset", "startArticle"}]_vars

(* C15, amended: at Complete continue changes nothing, back moves to the   *)
(* last step of the path whenever the path has one, and nothing but back   *)
(* and startArticle leads from Complete to a state that is not Complete.   *)
C15_CompleteLeftByBack ==
    [][(state.selectedArticleId # NullId /\ isComplete(state, passedArticle)) =>
          /\ (result'.op = "continue" =>
                 state' = state /\ result'.ret = [completed |-> TRUE])
          /\ (result'.op = "back" /\ state.currentStepIndex > 0 =>
                 /\ ~isComplete(state', getArticle(currentArticle'))
                 /\ state'.currentStepIndex = state.currentStepIndex - 1)
          /\ (~isComplete(state', getArticle(currentArticle')) =>
                 result'.op \in {"back", "startArticle"})]_vars

(* back has just moved the runner from Complete to the last step *)
C15_Witness ==
    /\ result.op = "back"
    /\ result.ret.success
    /\ getTotalSteps(state, passedArticle) > 0
    /\ state.currentStepIndex = getTotalSteps(state, passedArticle) - 1
    /\ ~isComplete(state, passedArticle)

(* the fallbacks of an article, by their position, that have the category *)
matchingIn(article, reasonCategory) ==
    {i \in DOMAIN article.fallbacks :
        article.fallbacks[i].reason_category = reasonCategory}

(* the tokens of the notes of the failure form, computed once *)
NoteTokens == [n \in Notes |-> Range(normalizeToTokens(n))]

(* how many trigger keywords of a fallback are tokens of the note *)
keywordScore(fallback, failureNote) ==
    LET tokens == IF failureNote \in Notes THEN NoteTokens[failureNote]
                  ELSE Range(normalizeToTokens(failureNote))
    IN  Cardinality({k \in DOMAIN fallback.trigger_keywords :
                        toLowerCase(fallback.trigger_keywords[k]) \in tokens})

(* the match of the same-article rule in an article that has a fallback of *)
(* the category: highest score, the one declared first on equal scores     *)
bestMatch(article, reasonCategory, failureNote) ==
    LET matching == matchingIn(article, reasonCategory)
        score == [i \in matching |-> keywordScore(article.fallbacks[i], failureNote)]
    IN  article.fallbacks[
            CHOOSE i \in matching :
                \A j \in matching :
                    \/ score[i] > score[j]
                    \/ score[i] = score[j] /\ i <= j]

(* the article selectFallback was called with last *)
selectedFor == getArticle(result.args.currentArticle)

(* C16: when the current article has fallbacks of the given category,      *)
(* selectFallback returns, tagged same-article and with the current        *)
(* article, the one with the most trigger keywords among the tokens of the *)
(* note, the one declared first on equal counts; it is tagged same-article *)
(* in no other case.                                                       *)
C16_SameArticleTier ==
    result.op = "selectFallback" =>
        LET matching == matchingIn(selectedFor, result.args.reasonCategory)
        IN  /\ (result.ret.type = "same-article") <=> (matching # {})
            /\ (matching # {} =>
                   /\ result.ret.article = selectedFor
                   /\ result.ret.fallback =
                          bestMatch(selectedFor, result.args.reasonCategory,
                                    result.args.failureNote))

(* two fallbacks of the category score the same, above 0, and the one      *)
(* declared first was selected                                             *)
C16_Witness ==
    /\ result.op = "selectFallback"
    /\ result.ret.type = "same-article"
    /\ \E i, j \in matchingIn(selectedFor, result.args.reasonCategory) :
          /\ i < j
          /\ keywordScore(selectedFor.fallbacks[i], result.args.failureNote) > 0
          /\ keywordScore(selectedFor.fallbacks[i], result.args.failureNote) =
                 keywordScore(selectedFor.fallbacks[j], result.args.failureNote)
          /\ result.ret.fallback = selectedFor.fallbacks[i]

(* the positions in the corpus of the other articles that have a fallback  *)
(* of the category                                                         *)
othersWith(article, reasonCategory) ==
    {i \in DOMAIN Articles :
        /\ Articles[i].id # article.id
        /\ matchingIn(Articles[i], reasonCategory) # {}}

(* C17: when the current article has no fallback of the given category and *)
(* another article has one, selectFallback returns, tagged cross-article,  *)
(* the first such article of the corpus with its match by the same-article *)
(* rule, whatever later articles offer; it is tagged cross-article in no   *)
(* other case.                                                             *)
C17_CrossArticleTier ==
    result.op = "selectFallback" =>
        LET others == othersWith(selectedFor, result.args.reasonCategory)
            none == matchingIn(selectedFor, result.args.reasonCategory) = {}
            first == CHOOSE i \in others : \A j \in others : i <= j
        IN  /\ (result.ret.type = "cross-article") <=> (none /\ others # {})
            /\ (none /\ others # {} =>
                   /\ result.ret.article = Articles[first]
                   /\ result.ret.fallback =
                          bestMatch(Articles[first], result.args.reasonCategory,
                                    result.args.failureNote))

(* a later article offers a fallback with more keywords in the note than   *)
(* the one selected from the first article                                 *)
C17_Witness ==
    /\ result.op = "selectFallback"
    /\ result.ret.type = "cross-article"
    /\ \E j \in othersWith(selectedFor, result.args.reasonCategory) :
          /\ Articles[j].id # result.ret.article.id
          /\ keywordScore(bestMatch(Articles[j], result.args.reasonCategory,
                                    result.args.failureNote),
                          result.args.failureNote) >
                 keywordScore(result.ret.fallback, result.args.failureNote)

(* C18: selectFallback returns an escalation exactly when no article of    *)
(* the corpus, the current one included, has a fallback of the given       *)
(* category, and the escalation is the current article's own record.       *)
C18_EscalationTier ==
    result.op = "selectFallback" =>
        /\ (result.ret.type = "escalation") <=>
               (\A i \in DOMAIN Articles :
                    matchingIn(Articles[i], result.args.reasonCategory) = {})
        /\ (result.ret.type = "escalation" =>
               result.ret = [type |-> "escalation",
                             escalation |-> selectedFor.escalation])

(* a failure of a category no article covers has ended in the escalation   *)
(* of the current article                                                  *)
C18_Witness ==
    /\ result.op = "selectFallback"
    /\ result.ret.type = "escalation"
    /\ selectedFor # NullArticle
    /\ result.ret.escalation = selectedFor.escalation
    /\ \E i \in DOMAIN Articles :
          Articles[i].escalation # selectedFor.escalation

(* C19: findStepsToSkip returns exactly the indices of the candidate steps *)
(* whose text is similar to at least one completed text, and so the empty  *)
(* set when there is no completed text.                                    *)
C19_SkipSetIsSimilarToAny ==
    result.op = "findStepsToSkip" =>
        LET steps == result.args.fallbackSteps
            texts == result.args.completedStepTexts
        IN  /\ result.ret =
                   {i \in 0 .. Len(steps) - 1 :
                       \E t \in Range(texts) : similar(steps[i + 1].text, t)}
            /\ (texts = <<>> => result.ret = {})

(* a call with two completed texts skipped a later step, whose text is not *)
(* one of the completed texts, and kept the first                          *)
C19_Witness ==
    /\ result.op = "findStepsToSkip"
    /\ Len(result.args.completedStepTexts) = 2
    /\ 0 \notin result.ret
    /\ \E i \in result.ret :
          result.args.fallbackSteps[i + 1].text \notin
              Range(result.args.completedStepTexts)

(* the numbers of tokens two texts share and have together *)
sharedTokens(text1, text2) ==
    Cardinality(Range(normalizeToTokens(text1)) \cap Range(normalizeToTokens(text2)))

allTokens(text1, text2) ==
    Cardinality(Range(normalizeToTokens(text1)) \cup Range(normalizeToTokens(text2)))

(* C20: areStepsSimilar is true exactly when the texts are identical or    *)
(* share more than 0.6 of their tokens (shared * 5 > all * 3); a pair that *)
(* shares exactly 0.6 of its tokens is not similar, and every text is      *)
(* similar to itself.                                                      *)
C20_SimilarityThreshold ==
    result.op = "areStepsSimilar" =>
        LET text1 == result.args.text1
            text2 == result.args.text2
            shared == sharedTokens(text1, text2)
            all == allTokens(text1, text2)
        IN  /\ result.ret <=> (text1 = text2 \/ shared * 5 > all * 3)
            /\ (text1 = text2 => result.ret)
            /\ (all > 0 /\ shared * 5 = all * 3 => ~result.ret)

(* two texts that share 3 of their 5 tokens were found not similar *)
C20_Witness ==
    /\ result.op = "areStepsSimilar"
    /\ sharedTokens(result.args.text1, result.args.text2) = 3
    /\ allTokens(result.args.text1, result.args.text2) = 5
    /\ ~result.ret

(***************************************************************************)
(* C21  calculateJaccardSimilarity is symmetric, does not depend on the    *)
(* repetitions or on the order of the tokens, is 1 for a non-empty         *)
(* sequence compared with itself, 0 for two empty sequences, and always    *)
(* lies between 0 and 1.                                                   *)
(***************************************************************************)
C21_JaccardAlgebra ==
    result.op = "calculateJaccardSimilarity" =>
        LET A == result.args.tokens1
            B == result.args.tokens2
            j == result.ret
        IN  /\ j = calculateJaccardSimilarity(B, A)
            /\ j = calculateJaccardSimilarity(SetToSeq(Range(A)),
                                              SetToSeq(Range(B)))
            /\ (A = B /\ A # <<>>) => j[1] = j[2]
            /\ (A = <<>> /\ B = <<>>) => j[1] = 0
            /\ j[2] > 0
            /\ 0 <= j[1]
            /\ j[1] <= j[2]

(* two sequences with the same tokens, repeated and in another order, are  *)
(* at similarity 1                                                         *)
C21_Witness ==
    /\ result.op = "calculateJaccardSimilarity"
    /\ result.args.tokens1 = <<<<"a">>, <<"b">>, <<"a">>>>
    /\ result.args.tokens2 = <<<<"b">>, <<"a">>>>
    /\ result.ret = <<2, 2>>

(***************************************************************************)
(* Properties of the retrieval.                                            *)
(***************************************************************************)
(* the score search gives an article for a query *)
scoreOf(article, query) ==
    scoreArticle(article, toLowerCase(query),
                 splitWhitespace(toLowerCase(query))).score

(***************************************************************************)
(* C22  search returns at most limit results (3 when no limit is given),   *)
(* each with a score above 0, in non-increasing order of score, and an     *)
(* article with a positive score is left out only when every returned      *)
(* result scores at least as much.                                         *)
(***************************************************************************)
C22_SearchRanking ==
    result.op = "search" =>
        LET query == result.args.query
            options == result.args.options
            limit == IF options = <<>> THEN 3 ELSE options.limit
            ret == result.ret
            positive == {i \in DOMAIN Articles : scoreOf(Articles[i], query) > 0}
            returned == {ret[k].article : k \in DOMAIN ret}
        IN  /\ Len(ret) <= limit
            /\ \A k \in DOMAIN ret :
                  /\ ret[k].score > 0
                  /\ ret[k].article \in Range(Articles)
                  /\ ret[k].score = scoreOf(ret[k].article, query)
            /\ \A k \in 1 .. (Len(ret) - 1) : ret[k].score >= ret[k + 1].score
            /\ Cardinality(returned) = Len(ret)
            /\ Len(ret) = (IF Cardinality(positive) < limit
                           THEN Cardinality(positive) ELSE limit)
            /\ \A i \in positive :
                  Articles[i] \notin returned =>
                      \A k \in DOMAIN ret : ret[k].score >= scoreOf(Articles[i], query)

(* three articles score above 0, the limit is 2: the two returned are the  *)
(* best one and the first of the two that tie                              *)
C22_Witness ==
    /\ result.op = "search"
    /\ result.args.options = [limit |-> 2]
    /\ \A i \in DOMAIN Articles : scoreOf(Articles[i], result.args.query) > 0
    /\ Len(result.ret) = 2
    /\ result.ret[1].article = ArticleOutlook
    /\ result.ret[1].score = 5
    /\ result.ret[2].article = ArticleEmail
    /\ result.ret[2].score = 4
    /\ scoreOf(ArticleEmpty, result.args.query) = 4

(* the whole tokens of a text: its lower-case pieces between whitespace *)
wholeTokens(text) == Range(filterNonEmpty(splitWhitespace(toLowerCase(text))))

(* the score by the stated rule: 3 for each tag sharing a whole token with *)
(* the query, 2 for the product named in the query, 1 for the title        *)
(* containing the query, 1 for each keyword contained in the query         *)
statedScore(article, query) ==
    LET queryLower == toLowerCase(query)
        sharing == {i \in DOMAIN article.tags :
                      wholeTokens(article.tags[i]) \cap wholeTokens(query) # {}}
        contained == {i \in DOMAIN article.keywords :
                        includes(queryLower, toLowerCase(article.keywords[i]))}
    IN  3 * Cardinality(sharing)
        + (IF includes(queryLower, toLowerCase(article.product)) THEN 2 ELSE 0)
        + (IF includes(toLowerCase(article.title), queryLower) THEN 1 ELSE 0)
        + Cardinality(contained)

(***************************************************************************)
(* C23  The score of a returned article is 3 for each tag that shares a    *)
(* whole token with the query, plus 2 when the query contains the product, *)
(* plus 1 for a title match, plus 1 for each keyword contained in the      *)
(* query, without regard to case; a tag sharing no token adds nothing.     *)
(***************************************************************************)
C23_ScoreRule ==
    result.op = "search" =>
        \A k \in DOMAIN result.ret :
            result.ret[k].score =
                statedScore(result.ret[k].article, result.args.query)

(***************************************************************************)
(* C24  isLowConfidence is true exactly when there is no result list, the  *)
(* list is empty, or its first result scores below 9.                      *)
(***************************************************************************)
C24_LowConfidence ==
    result.op = "isLowConfidence" =>
        LET results == result.args.results
        IN  result.ret = (\/ results = NullResults
                          \/ results = <<>>
                          \/ (results # NullResults /\ results # <<>>
                              /\ results[1].score < 9))

(* a first result at 9 is confident, whatever follows it *)
C24_Witness ==
    /\ result.op = "isLowConfidence"
    /\ result.args.results # NullResults
    /\ Len(result.args.results) = 2
    /\ result.args.results[1].score = 9
    /\ result.args.results[2].score < 9
    /\ result.ret = FALSE

(***************************************************************************)
(* Properties of the side panel handlers.                                  *)
(***************************************************************************)
(***************************************************************************)
(* C27  A query that matches leaves the chat on a matched article: when    *)
(* handleUserInput has run to its end, one result has started the Step     *)
(* Runner on its article, whose first step is shown; several results are   *)
(* offered as cards to click; a query without result leaves the input      *)
(* enabled.                                                                *)
(***************************************************************************)
C27_ChatFlowStarts ==
    (result.op = "handleUserInput" /\ result.at = "typingDelay") =>
        LET articles == result.articles
            last == chat.messages[Len(chat.messages)]
        IN  /\ Len(articles) = 0 => ~chat.disabled
            /\ Len(articles) = 1 =>
                  /\ state.selectedArticleId = articles[1].article
                  /\ currentArticle = articles[1].article
                  /\ state.activePath = "main"
                  /\ state.currentStepIndex = 0
                  /\ last = "step"
            /\ Len(articles) > 1 => last = "cards"

C30_RemoteAfterUrlSaved ==
    (result.op = "loadKB" /\ result.at # "call"
        /\ result.call.pc \in {"returned", "rejected"}
        /\ result.call.afterSave
        /\ ~result.call.forceRefresh
        /\ configured(result.call.url)
        /\ result.call.fetched # "failed")
       => result.call.source = "remote"

(***************************************************************************)
(* C31  The tiers of selectFallback are tried in order and the first that  *)
(* succeeds wins: a fallback of the category in the current article gives  *)
(* a same-article result, even when it shares no keyword with the note and *)
(* another article has a fallback of the category that shares more; a      *)
(* cross-article result is returned only when the current article has      *)
(* none, an escalation only when no article has one.                       *)
(***************************************************************************)
C31_FirstTierWins ==
    result.op = "selectFallback" =>
        LET matching == matchingIn(selectedFor, result.args.reasonCategory)
            others == othersWith(selectedFor, result.args.reasonCategory)
        IN  /\ matching # {} =>
                  /\ result.ret.type = "same-article"
                  /\ result.ret.article = selectedFor
                  /\ \E i \in matching : result.ret.fallback = selectedFor.fallbacks[i]
            /\ result.ret.type = "cross-article" => (matching = {} /\ others # {})
            /\ result.ret.type = "escalation" => (matching = {} /\ others = {})

(* the fallback of the current article shares no keyword with the note,    *)
(* another article has one of the category that does, and the result is    *)
(* still same-article                                                      *)
C31_Witness ==
    /\ result.op = "selectFallback"
    /\ result.ret.type = "same-article"
    /\ result.ret.article = selectedFor
    /\ keywordScore(result.ret.fallback, result.args.failureNote) = 0
    /\ \E j \in othersWith(selectedFor, result.args.reasonCategory) :
          keywordScore(bestMatch(Articles[j], result.args.reasonCategory,
                                 result.args.failureNote),
                       result.args.failureNote) > 0

(* a keyword that is one normalized token once lower-cased: no whitespace, *)
(* no punctuation, not empty                                               *)
singleToken(keyword) ==
    /\ keyword # <<>>
    /\ \A i \in DOMAIN keyword : isWordChar(keyword[i])

(* the same character sequence, compared position by position *)
sameChars(a, b) ==
    /\ Len(a) = Len(b)
    /\ \A i \in DOMAIN a : a[i] = b[i]

(***************************************************************************)
(* C32  calculateKeywordOverlap(triggerKeywords, queryTokens) is the       *)
(* number of entries of triggerKeywords whose lower-cased form is, as a    *)
(* whole, an element of queryTokens; it is 0 when either list is empty,    *)
(* and a keyword that is not one normalized token never contributes.       *)
(***************************************************************************)
C32_KeywordOverlap ==
    result.op = "calculateKeywordOverlap" =>
        LET triggerKeywords == result.args.triggerKeywords
            queryTokens == result.args.queryTokens
            hits == {k \in DOMAIN triggerKeywords :
                        \E t \in DOMAIN queryTokens :
                           sameChars(toLowerCase(triggerKeywords[k]), queryTokens[t])}
        IN  /\ result.ret = Cardinality(hits)
            /\ (triggerKeywords = <<>> \/ queryTokens = <<>>) => result.ret = 0
            /\ \A k \in hits : singleToken(triggerKeywords[k])

(* a call with an upper-case keyword that counts, and a part of a word, a  *)
(* two-word keyword and a punctuated keyword that do not                    *)
C32_Witness ==
    /\ result.op = "calculateKeywordOverlap"
    /\ result.ret = 1
    /\ Len(result.args.triggerKeywords) = 2
    /\ result.args.triggerKeywords[1] = KwSmtpUpper
    /\ result.args.triggerKeywords[2] \in {KwPor, KwSmtpPort, KwPortDot}
    /\ \E t \in DOMAIN result.args.queryTokens : result.args.queryTokens[t] = KwPort

(* what k calls of continue and nothing else give, in the order of the    *)
(* calls: the state after each call and the value it returned              *)
RECURSIVE continueTrace(_, _, _)
continueTrace(st, article, k) ==
    IF k = 0 THEN <<>>
    ELSE LET r == continue(st, article)
         IN  <<r>> \o continueTrace(r.state, article, k - 1)

(* the calls of continue still needed on the active path *)
remainingSteps(st, article) == getTotalSteps(st, article) - st.currentStepIndex

(***************************************************************************)
(* C34  From every Active state, with continue as the only call from then  *)
(* on, the run is Complete after exactly (total steps of the active path   *)
(* - currentStepIndex) calls, not before, and every later continue returns *)
(* {completed: true} and changes nothing.                                  *)
(***************************************************************************)
C34_ContinueReachesComplete ==
    LET article == passedArticle
        n == remainingSteps(state, article)
        calls == continueTrace(state, article, n + 3)
        after(k) == IF k = 0 THEN state ELSE calls[k].state
    IN  (state.selectedArticleId # NullId /\ n > 0) =>
            /\ \A k \in 0 .. (n - 1) :
                  /\ ~isComplete(after(k), article)
                  /\ calls[k + 1].ret.completed = (k = n - 1)
            /\ isComplete(after(n), article)
            /\ \A k \in n .. (n + 2) :
                  calls[k + 1] = [state |-> after(n), ret |-> [completed |-> TRUE]]

(* an Active state in the middle of a fallback path, reached by going back *)
(* over a completed step, with two or more steps to go                     *)
C34_Witness ==
    /\ result.op = "back"
    /\ state.activePath # "main"
    /\ state.currentStepIndex > 0
    /\ remainingSteps(state, passedArticle) >= 2
    /\ state.completedStepIds # <<>>

(***************************************************************************)
(* C35  attemptedPaths is empty exactly when no article has been started   *)
(* since the last reset; otherwise its first record has path "main" and    *)
(* its last record has the active path.  startArticle leaves one record,   *)
(* every switchToFallback appends one (so the length is one plus the       *)
(* switches since the start), no other call changes the list, and between  *)
(* resets the records already there stay as they are.                      *)
(***************************************************************************)
C35_AttemptedPaths ==
    /\ [](/\ (state.attemptedPaths = <<>>) <=> (currentArticle = NullId)
          /\ state.attemptedPaths # <<>> =>
                /\ state.attemptedPaths[1].path = "main"
                /\ state.attemptedPaths[Len(state.attemptedPaths)].path
                      = state.activePath)
    /\ [][/\ result'.op = "reset" => state'.attemptedPaths = <<>>
          /\ result'.op = "startArticle" => Len(state'.attemptedPaths) = 1
          /\ result'.op = "switchToFallback" =>
                /\ Len(state'.attemptedPaths) = Len(state.attemptedPaths) + 1
                /\ SubSeq(state'.attemptedPaths, 1, Len(state.attemptedPaths))
                      = state.attemptedPaths
                /\ state'.attemptedPaths[Len(state'.attemptedPaths)].path
                      = result'.args.fallbackId
          /\ result'.op \notin {"reset", "startArticle", "switchToFallback"} =>
                state'.attemptedPaths = state.attemptedPaths]_vars

(* a switch to a fallback has just added the second record *)
C35_Witness ==
    /\ result.op = "switchToFallback"
    /\ Len(state.attemptedPaths) = 2
    /\ state.attemptedPaths[1].path = "main"
    /\ state.attemptedPaths[2].path = result.args.fallbackId
    /\ state.activePath = result.args.fallbackId

(* runners in other RunStates than any the behaviour passes through: a     *)
(* new one, and one that has attempted the main path and both fallbacks of *)
(* article 1, completed steps, recorded a failure and skipped a step       *)
otherRunners ==
    {reset,
     [selectedArticleId |-> 1,
      activePath |-> "fallback2",
      currentStepIndex |-> 1,
      completedStepIds |-> <<"step1", "fb1-step1">>,
      attemptedPaths |-> <<[path |-> "main", startedAt |-> 0],
                           [path |-> "fallback1", startedAt |-> 0],
                           [path |-> "fallback2", startedAt |-> 0]>>,
      failureHistory |-> <<[stepId |-> "step2", reasonCategory |-> "no-change",
                            note |-> NoteQuota, timestamp |-> 0]>>,
      skippedStepsCount |-> 1]}

(***************************************************************************)
(* C36  selectFallback is a function of its four arguments alone and has   *)
(* no side effect: a runner in another RunState (other index, completed    *)
(* steps, failure history and attempted paths) returns the same result for *)
(* the same current article, corpus, category and note, and the call       *)
(* changes no field of the RunState of either runner, also when the result *)
(* is an escalation.                                                       *)
(***************************************************************************)
C36_SelectFallbackPure ==
    [][result'.op = "selectFallback" =>
          /\ state' = state
          /\ \A other \in otherRunners :
                LET r == selectFallback(other,
                                        getArticle(result'.args.currentArticle),
                                        Articles, result'.args.reasonCategory,
                                        result'.args.failureNote)
                IN  /\ r.ret = result'.ret
                    /\ r.state = other]_vars

(* a fallback of the current article returned to a runner that has         *)
(* completed steps, stands past the first step and holds two failures,     *)
(* while another runner has attempted that fallback already                *)
C36_Witness ==
    /\ result.op = "selectFallback"
    /\ result.ret.type = "same-article"
    /\ \E other \in otherRunners : \E i \in DOMAIN other.attemptedPaths :
          other.attemptedPaths[i].path = result.ret.fallback.id
    /\ state \notin otherRunners
    /\ state.currentStepIndex > 0
    /\ state.completedStepIds # <<>>
    /\ Len(state.failureHistory) >= 2
    /\ Len(state.attemptedPaths) = 1

(***************************************************************************)
(* C37  After a switchToFallback that skipped k > 0 leading steps, no      *)
(* sequence of back and continue calls makes a step with index < k of that *)
(* fallback the current step: the skipped prefix stays hidden.             *)
(* skippedStepsCount holds k from the switch until the next switch, start  *)
(* or reset.                                                               *)
(***************************************************************************)
C37_SkippedPrefixHidden ==
    (state.activePath # "main" /\ state.skippedStepsCount > 0) =>
        state.currentStepIndex >= state.skippedStepsCount

(* fallbacks is searched by position: the places of a fallback in an       *)
(* article's list                                                          *)
placesOf(fallback, article) ==
    {i \in DOMAIN article.fallbacks : article.fallbacks[i] = fallback}

(***************************************************************************)
(* C38  Every fallback selectFallback returns has the requested category   *)
(* and is in the fallbacks list of the article returned with it; with a    *)
(* same-article result that article is the current article, with a         *)
(* cross-article result it is an article of the corpus whose id differs    *)
(* from the current article's.                                             *)
(***************************************************************************)
C38_FallbackBelongs ==
    (result.op = "selectFallback" /\ result.ret.type # "escalation") =>
        /\ result.ret.fallback.reason_category = result.args.reasonCategory
        /\ placesOf(result.ret.fallback, result.ret.article) # {}
        /\ result.ret.type = "same-article" =>
              result.ret.article = getArticle(result.args.currentArticle)
        /\ result.ret.type = "cross-article" =>
              /\ result.ret.article.id # result.args.currentArticle
              /\ \E i \in DOMAIN Articles : Articles[i] = result.ret.article

(* a cross-article result whose fallback has an id that a fallback of the  *)
(* current article has too                                                 *)
C38_Witness ==
    /\ result.op = "selectFallback"
    /\ result.ret.type = "cross-article"
    /\ \E i \in DOMAIN getArticle(result.args.currentArticle).fallbacks :
          getArticle(result.args.currentArticle).fallbacks[i].id
             = result.ret.fallback.id
    /\ placesOf(result.ret.fallback, result.ret.article) # {}

(***************************************************************************)
(* C39  With overlapping loadKB / refreshKB calls in one loader, once a    *)
(* call has put the remote KB it fetched in the in-memory cache, no call   *)
(* that began before that one ended and whose own fetch failed replaces it *)
(* by the stored or the mock KB: when such a call returns while cachedKB   *)
(* is that remote KB, cachedKB stays as it is.                             *)
(***************************************************************************)
C39_RemoteKept ==
    [][(/\ result'.op = "loadKB"
        /\ result'.at = "loadCachedKB"
        /\ result'.call.fetched = "failed"
        /\ result'.call.remoteSince # NullKB
        /\ loader.cachedKB = result'.call.remoteSince)
       => loader'.cachedKB = loader.cachedKB
    ]_vars

====
